---- MODULE Spec2Model ----
(***************************************************************************)
(* Cross-exchange arbitrage bot (bitwii/cross-exchange-arbitrage).         *)
(*                                                                         *)
(* One asyncio task runs the main loop and the trade pipeline; the order   *)
(* update and fill handlers are callbacks that run only while that task is *)
(* suspended in an await.  A value of pc names the await the task is       *)
(* suspended in; the values in NoAwait name points between two awaits,     *)
(* where no callback can run.                                              *)
(*                                                                         *)
(* Both engines are modelled: engine says which one arbitrage.py started.    *)
(* EdgexArb calls place_edgex_post_only_order with the keywords             *)
(* arb_direction and threshold, which the OrderManager of src/ does not     *)
(* take: kwargs_accepted = FALSE is that program (the call raises TypeError, *)
(* the pipeline's except branch stops the bot), kwargs_accepted = TRUE is   *)
(* EdgexArb on an OrderManager that takes them and runs the same body.      *)
(*                                                                         *)
(* Units: sizes and positions in 0.01 base units, prices, spreads and      *)
(* thresholds in 0.01 quote units, multipliers in percent, holding time in *)
(* hours.                                                                  *)
(***************************************************************************)
EXTENDS Integers, Sequences, FiniteSets, TLC

\* ---- bounds of the model ------------------------------------------------
OrderQty == 2
MaxTickets == 2
MaxHours == 3
MaxQueue == 2
MaxResend == 1
MaxApplied == 2
\* DynamicThresholdCalculator: the window (1000 samples in the program), the samples
\* a recomputation needs (100 in the program), the recomputations counted per sample
window_size == 4
Warmup == 3
MaxUpdates == 2

\* ---- constants of the program ---------------------------------------------
Tau == 1
SyncTolerance == 1
long_ex_threshold == 1000
short_ex_threshold == 1000
close_threshold_multiplier == 10
min_close_spread == 15
time_based_close_stage1_hours == 1
time_based_close_stage2_hours == 2
time_based_close_stage3_hours == 3
stage1_close_multiplier == 8
stage1_min_spread == 10
stage2_close_multiplier == 5
stage2_min_spread == 0
stage3_close_multiplier == 0
stage3_min_spread == 0
price_tolerance_pct == 5
\* DYNAMIC_THRESHOLD_MIN, DYNAMIC_THRESHOLD_MAX, DYNAMIC_THRESHOLD_PERCENTILE (percent)
min_threshold == 100
max_threshold == 1000
DYNAMIC_THRESHOLD_PERCENTILE == 70

\* position_open_time = None
NotOpen == -1
\* edgex_order_status = None, current_order_id = None, current_lighter_side = None
None == "None"

VARIABLES
    engine,                     \* "edgex": EdgexArb, "standx": StandxArb (arbitrage.py --exchange)
    kwargs_accepted,            \* does place_edgex_post_only_order take arb_direction/threshold
    max_position,               \* --max-position
    enable_time_based_close,    \* ENABLE_TIME_BASED_CLOSE
    fill_in_resync,             \* history: a callback has added a fill to the cached positions
                                \* while the resync in progress was suspended
    applied,                    \* history: how often the fill of each maker order has been
                                \* added to the cached maker position
    pc,                         \* where the main task is
    stop_flag,
    maker_ws_up, taker_ws_up,   \* the order-update / fill callbacks are still dispatched
    bbo,                        \* the quotes the running iteration has read
    signal,                     \* the pipeline the last decision called
    holding_time_hours,         \* time.time() - position_open_time, NotOpen when it is None
    last_position_sync_time,    \* FALSE = None
    m_pos, t_pos,               \* PositionTracker cache: maker, taker
    actual_m, actual_t,         \* positions a resync has read from the venues
    edgex_order_status,
    edgex_client_order_id,      \* 0 = ''
    order_execution_complete,
    waiting_for_lighter_fill,
    current_lighter_side,
    current_lighter_quantity,
    lighter_order_filled,
    current_order_id,           \* StandxArb.current_order_id, 0 = None
    leg_stop,                   \* the stop_flag value passed to the running leg
    ticket,                     \* the maker order of the running pipeline, 0 before it is placed
    orders,                     \* maker venue: ticket -> [side, filled, st]
    mq,                         \* maker order updates on the way to the handler
    tq,                         \* taker fills on the way to the handler
    vm_pos, vt_pos,             \* positions at the venues
    hedges,                     \* taker orders sent: [tk, side, qty, fill]
    fill_reported,              \* tickets whose fill the handler passed on while their pipeline ran
    m_before, t_before,         \* the cache when the running pipeline was called
    resends,                    \* updates the maker feed has sent a second time
    long_spreads, short_spreads,    \* DynamicThresholdCalculator: the two deques
    long_threshold, short_threshold,
    long_mean, long_std, short_mean, short_std,
    percentile,                 \* the percentile the calculator is constructed with, in percent
    interval_elapsed,           \* time.time() - last_update_time >= update_interval
    updates_since_sample,       \* recomputations since the last sample was appended
    cleanup_pc,                 \* where run() is once trading_loop has been left
    resources_closed,           \* the connections, clients and files closed so far
    pending_orders,             \* _cancel_all_pending_orders: the orders still to cancel
    cancel_sent,                \* maker orders a cancel has been requested for: by the leg that
                                \* waits for them, by the cleanup
    edgex_pos, lighter_pos,     \* _close_all_positions: the positions read from the venues
    flatten_orders,             \* orders sent to close the positions: [venue, side, qty, post_only, fill]
    checks,                     \* passes made of a bounded wait: for the positions to be closed,
                                \* for the order of a timed-out submit to leave the active orders
    attempted,                  \* the steps of the cleanup that have been started
    failed, logged,             \* the steps that failed or timed out, and those a log call was made for
    cleanup_raised              \* an exception has left _async_cleanup

cfgv == <<engine, kwargs_accepted, max_position, enable_time_based_close>>
trackv == <<m_pos, t_pos>>
omv == <<edgex_order_status, edgex_client_order_id, order_execution_complete,
         waiting_for_lighter_fill, current_lighter_side, current_lighter_quantity,
         lighter_order_filled>>
makerv == <<orders, mq, vm_pos>>
takerv == <<tq, vt_pos, hedges>>
wsv == <<maker_ws_up, taker_ws_up>>
syncv == <<actual_m, actual_t, last_position_sync_time, fill_in_resync>>
prev == <<m_before, t_before>>
dequev == <<long_spreads, short_spreads>>
statv == <<long_threshold, short_threshold, long_mean, long_std, short_mean, short_std>>
dtv == <<percentile, dequev, statv, interval_elapsed, updates_since_sample>>
loopv == <<cfgv, applied, resends, prev, pc, stop_flag, wsv, bbo, signal, holding_time_hours, syncv, trackv,
           omv, current_order_id, leg_stop, ticket, makerv, takerv, fill_reported>>
cleanv == <<cleanup_pc, resources_closed, pending_orders, cancel_sent, edgex_pos, lighter_pos, flatten_orders,
            checks, attempted, failed, logged, cleanup_raised>>
closev == <<cleanup_pc, resources_closed, pending_orders, edgex_pos, lighter_pos, flatten_orders,
            checks, attempted, failed, logged, cleanup_raised>>
vars == <<loopv, dtv, cleanv>>

Abs(x) == IF x < 0 THEN -x ELSE x
Max(a, b) == IF a >= b THEN a ELSE b
Min(a, b) == IF a <= b THEN a ELSE b

NoBBO == [eb |-> 0, ea |-> 0, lb |-> 0, la |-> 0, src |-> "none", cur |-> 0]

\* ---- quotes the books can show --------------------------------------------
\* maker bid/ask 1000.00/1001.00 or an empty side; taker quotes placed around them
MakerQuotes == {<<100000, 100100>>, <<0, 100100>>, <<100000, 0>>}
\* taker bid/ask: a long spread of 10.01 and of 10.00, short spreads of 10.01, 1.01,
\* 0.90, 0.60, 0.01 and 0, and an empty side
TakerQuotes == {<<101001, 101101>>, <<101000, 101100>>, <<98999, 99099>>, <<99899, 99999>>,
                <<99910, 100010>>, <<99940, 100040>>, <<99999, 100099>>, <<100000, 100100>>,
                <<0, 99099>>, <<101001, 0>>}
\* taker quotes read next to a maker quote that came over REST: a long spread and a
\* short spread of 10.01, an empty ask side, no spread
RestTakerQuotes == {<<101001, 101101>>, <<98999, 99099>>, <<101001, 0>>, <<100000, 100100>>}
\* the positions the venues hold when the bot starts: none, a hedged long or a hedged short
StartPositions == {<<0, 0>>, <<OrderQty, -OrderQty>>, <<-OrderQty, OrderQty>>}
\* what the side of the cached maker quote that the pipeline reads again can be when
\* the decision used the REST quote (bbo.cur)
CachedQuotes == {0, 100000, 100100, 100200}

\* ---- PositionTracker -------------------------------------------------------
get_net_position == m_pos + t_pos

\* a naked test that looks at the long side only
naked_long_only(m, t) == Abs(m + t) > Tau /\ m > Tau /\ t > Tau

\* edgex_arb.py:935-938, the naked test of the main loop
naked(m, t) ==
    /\ Abs(m + t) > Tau
    /\ \/ (m < -Tau /\ t < -Tau)
       \/ (m > Tau /\ t > Tau)

is_naked == naked(m_pos, t_pos)

\* ---- spreads and thresholds -------------------------------------------------
long_spread(b) == IF b.lb # 0 /\ b.eb # 0 THEN b.lb - b.eb ELSE 0
short_spread(b) == IF b.ea # 0 /\ b.la # 0 THEN b.ea - b.la ELSE 0

\* a stage selector without the third stage: the second stage never ends
get_thresholds_two_stages(h) ==
    IF ~enable_time_based_close \/ h = NotOpen THEN <<close_threshold_multiplier, min_close_spread>>
    ELSE IF h >= time_based_close_stage2_hours THEN <<stage2_close_multiplier, stage2_min_spread>>
    ELSE IF h >= time_based_close_stage1_hours THEN <<stage1_close_multiplier, stage1_min_spread>>
    ELSE <<close_threshold_multiplier, min_close_spread>>

\* a stage selector that is back at the default band from the third stage on
get_thresholds_stage3_default(h) ==
    IF ~enable_time_based_close \/ h = NotOpen THEN <<close_threshold_multiplier, min_close_spread>>
    ELSE IF h >= time_based_close_stage3_hours THEN <<close_threshold_multiplier, min_close_spread>>
    ELSE IF h >= time_based_close_stage2_hours THEN <<stage2_close_multiplier, stage2_min_spread>>
    ELSE IF h >= time_based_close_stage1_hours THEN <<stage1_close_multiplier, stage1_min_spread>>
    ELSE <<close_threshold_multiplier, min_close_spread>>

\* a stage selector whose second stage starts after stage2_hours have passed
get_thresholds_stage2_late(h) ==
    IF ~enable_time_based_close \/ h = NotOpen THEN <<close_threshold_multiplier, min_close_spread>>
    ELSE IF h >= time_based_close_stage3_hours THEN <<stage3_close_multiplier, stage3_min_spread>>
    ELSE IF h > time_based_close_stage2_hours THEN <<stage2_close_multiplier, stage2_min_spread>>
    ELSE IF h >= time_based_close_stage1_hours THEN <<stage1_close_multiplier, stage1_min_spread>>
    ELSE <<close_threshold_multiplier, min_close_spread>>

\* <<close multiplier, min close spread>> of _get_time_based_close_thresholds
get_time_based_close_thresholds(h) ==
    IF ~enable_time_based_close \/ h = NotOpen THEN <<close_threshold_multiplier, min_close_spread>>
    ELSE IF h >= time_based_close_stage3_hours THEN <<stage3_close_multiplier, stage3_min_spread>>
    ELSE IF h >= time_based_close_stage2_hours THEN <<stage2_close_multiplier, stage2_min_spread>>
    ELSE IF h >= time_based_close_stage1_hours THEN <<stage1_close_multiplier, stage1_min_spread>>
    ELSE <<close_threshold_multiplier, min_close_spread>>

\* stage_name of _get_time_based_close_thresholds
stage_name(h) ==
    IF ~enable_time_based_close \/ h = NotOpen THEN "default"
    ELSE IF h >= time_based_close_stage3_hours THEN "stage3_force"
    ELSE IF h >= time_based_close_stage2_hours THEN "stage2_breakeven"
    ELSE IF h >= time_based_close_stage1_hours THEN "stage1_relaxed"
    ELSE "default"

\* max(open_threshold * close_multiplier, min_close_spread) for a position of age h,
\* times 100 (the multiplier is in percent)
close_threshold(open_threshold, h) ==
    LET st == get_time_based_close_thresholds(h)
    IN  Max(open_threshold * st[1], st[2] * 100)

\* short_close_threshold of the main loop, times 100 (the multiplier is in percent)
short_close_threshold(pos, h) ==
    LET st == IF pos # 0 THEN get_time_based_close_thresholds(h)
              ELSE <<close_threshold_multiplier, min_close_spread>>
    IN  Max(short_ex_threshold * st[1], st[2] * 100)

\* a long signal that fires at the threshold itself
long_ex_at_threshold(b, pos) ==
    b.lb # 0 /\ b.eb # 0 /\ long_spread(b) >= long_ex_threshold /\ pos <= 0

\* a long signal that closes a short position at the close threshold of its stage
long_ex_staged_close(b, pos) ==
    /\ b.lb # 0 /\ b.eb # 0
    /\ \/ pos = 0 /\ long_spread(b) > long_ex_threshold
       \/ pos < 0 /\ long_spread(b) * 100 > close_threshold(long_ex_threshold, holding_time_hours)

\* a long signal that does not look at the position
long_ex_any_position(b, pos) ==
    b.lb # 0 /\ b.eb # 0 /\ long_spread(b) > long_ex_threshold

\* long_ex of the main loop
long_ex(b, pos) ==
    b.lb # 0 /\ b.eb # 0 /\ long_spread(b) > long_ex_threshold /\ pos <= 0

\* a short signal that fires at the threshold itself
short_ex_at_threshold(b, pos, h) ==
    /\ ~(b.lb # 0 /\ b.eb # 0 /\ long_spread(b) > long_ex_threshold /\ pos <= 0)
    /\ b.ea # 0 /\ b.la # 0
    /\ \/ pos > 0 /\ short_spread(b) * 100 >= short_close_threshold(pos, h)
       \/ pos = 0 /\ short_spread(b) >= short_ex_threshold

short_ex(b, pos, h) ==
    /\ ~long_ex(b, pos)
    /\ b.ea # 0 /\ b.la # 0
    /\ \/ pos > 0 /\ short_spread(b) * 100 > short_close_threshold(pos, h)
       \/ pos = 0 /\ short_spread(b) > short_ex_threshold

\* the position limits of the dispatch
long_allowed(pos) == pos < max_position

\* a short limit that lets every sell through
short_always_allowed(pos) == TRUE

short_allowed(pos) == pos > -max_position

\* a price check with ten times the tolerance
price_moved_tenfold(current, expected) ==
    Abs(current - expected) * 10000 > 10 * price_tolerance_pct * expected

\* price_change_pct > price_tolerance_pct, with the percentages cleared
price_moved(current, expected) ==
    Abs(current - expected) * 10000 > price_tolerance_pct * expected

\* ---- start -------------------------------------------------------------------
\* the state when the main loop is entered: the cache holds the venues' positions
Constructed ==
    /\ engine \in {"edgex", "standx"}
    /\ kwargs_accepted \in (IF engine = "edgex" THEN BOOLEAN ELSE {FALSE})
    /\ max_position \in {0, OrderQty}
    /\ enable_time_based_close \in (IF engine = "edgex" THEN BOOLEAN ELSE {TRUE})
    /\ pc = IF engine = "edgex" THEN "loop" ELSE "s_loop"
    /\ stop_flag = FALSE
    /\ maker_ws_up = TRUE /\ taker_ws_up = TRUE
    /\ bbo = NoBBO
    /\ signal = "none"
    /\ holding_time_hours = NotOpen
    /\ last_position_sync_time = FALSE
    /\ \E p \in StartPositions :
          /\ vm_pos = p[1] /\ vt_pos = p[2]
          /\ m_pos = p[1] /\ t_pos = p[2]
    /\ actual_m = 0 /\ actual_t = 0
    /\ fill_in_resync = FALSE
    /\ edgex_order_status = None
    /\ edgex_client_order_id = 0
    /\ order_execution_complete = FALSE
    /\ waiting_for_lighter_fill = FALSE
    /\ current_lighter_side = None
    /\ current_lighter_quantity = 0
    /\ lighter_order_filled = FALSE
    /\ current_order_id = 0
    /\ leg_stop = FALSE
    /\ ticket = 0
    /\ orders = <<>>
    /\ mq = <<>>
    /\ tq = <<>>
    /\ hedges = <<>>
    /\ fill_reported = {}
    /\ applied = [i \in 1..MaxTickets |-> 0]
    /\ m_before = 0 /\ t_before = 0
    /\ resends = 0
    /\ long_spreads = <<>> /\ short_spreads = <<>>
    /\ long_threshold = min_threshold /\ short_threshold = min_threshold
    /\ long_mean = 0 /\ long_std = 0 /\ short_mean = 0 /\ short_std = 0
    /\ interval_elapsed = FALSE
    /\ updates_since_sample = 0
    /\ cleanup_pc = "running"
    /\ resources_closed = {}
    /\ pending_orders = <<>>
    /\ cancel_sent = {}
    /\ edgex_pos = 0 /\ lighter_pos = 0
    /\ flatten_orders = <<>>
    /\ checks = 0
    /\ attempted = {}
    /\ failed = {} /\ logged = {}
    /\ cleanup_raised = FALSE

\* the main loop has been left, or the run is followed no further
Halted == {"exit", "capped"}
\* points of the main task between two awaits
NoAwait == {"bbo", "decide", "s_decide"}
\* the main task is inside a trade pipeline
InPipeline == {"leg_bbo", "leg_wait", "hedge_loop", "monitor",
               "verify_m", "verify_t", "verify_apply",
               "s_wait", "s_cancel_wait"}

Signed(side, q) == IF side = "buy" THEN q ELSE -q
Opposite(side) == IF side = "buy" THEN "sell" ELSE "buy"

\* ---- the maker venue --------------------------------------------------------
Update(i, status) ==
    [id |-> i, status |-> status, cum |-> orders[i].filled, side |-> orders[i].side]

\* resting order i trades k more
VenueFill(i, k) ==
    /\ pc \notin Halted
    /\ orders[i].st = "live"
    /\ Len(mq) < MaxQueue
    /\ LET f == orders[i].filled + k
           st == IF f = OrderQty THEN "filled" ELSE "live"
       IN  /\ orders' = [orders EXCEPT ![i].filled = f, ![i].st = st]
           /\ mq' = Append(mq, [id |-> i, cum |-> f, side |-> orders[i].side,
                                status |-> IF f = OrderQty THEN "FILLED" ELSE "PARTIALLY_FILLED"])
    /\ vm_pos' = vm_pos + Signed(orders[i].side, k)
    /\ UNCHANGED <<cfgv, applied, dtv, cleanv, resends, prev, pc, stop_flag, wsv, bbo, signal, holding_time_hours, syncv, trackv,
                   omv, current_order_id, leg_stop, ticket, takerv, fill_reported>>

\* the venue cancels resting order i (post-only rejection, or a cancel request it accepted earlier)
VenueCancel(i) ==
    /\ pc \notin Halted
    /\ orders[i].st = "live"
    /\ Len(mq) < MaxQueue
    /\ orders' = [orders EXCEPT ![i].st = "canceled"]
    /\ mq' = Append(mq, Update(i, "CANCELED"))
    /\ UNCHANGED <<cfgv, applied, dtv, cleanv, resends, prev, pc, stop_flag, wsv, bbo, signal, holding_time_hours, syncv, trackv,
                   omv, current_order_id, leg_stop, ticket, vm_pos, takerv, fill_reported>>

\* the feed sends the last update of finished order i once more while a later order
\* is the current one
VenueResend(i) ==
    /\ pc \notin Halted
    /\ resends < MaxResend
    /\ orders[i].st # "live"
    /\ ticket \notin {0, i}
    /\ Len(mq) < MaxQueue
    /\ \A j \in 1..Len(mq) : mq[j].id # i
    /\ mq' = Append(mq, Update(i, IF orders[i].st = "filled" THEN "FILLED" ELSE "CANCELED"))
    /\ resends' = resends + 1
    /\ UNCHANGED <<cfgv, applied, dtv, cleanv, prev, pc, stop_flag, wsv, bbo, signal, holding_time_hours, syncv, trackv,
                   omv, current_order_id, leg_stop, ticket, orders, vm_pos, takerv, fill_reported>>

\* the feed delivers the OPEN acknowledgement of the current order after the update
\* of its fill
VenueLate(i) ==
    /\ pc \in InPipeline
    /\ resends < MaxResend
    /\ i = ticket
    /\ orders[i].st = "filled"
    /\ Len(mq) < MaxQueue
    /\ mq' = Append(mq, [id |-> i, status |-> "OPEN", cum |-> 0, side |-> orders[i].side])
    /\ resends' = resends + 1
    /\ UNCHANGED <<cfgv, applied, dtv, cleanv, prev, pc, stop_flag, wsv, bbo, signal, holding_time_hours, syncv, trackv,
                   omv, current_order_id, leg_stop, ticket, orders, vm_pos, takerv, fill_reported>>

\* ---- callbacks ---------------------------------------------------------------
\* a hedge armed with the requested size of the maker order
arm_hedge_order_quantity(u) ==
    /\ current_lighter_side' = Opposite(u.side)
    /\ current_lighter_quantity' = OrderQty
    /\ waiting_for_lighter_fill' = TRUE
    /\ fill_reported' = IF pc \in InPipeline /\ u.id = ticket
                        THEN fill_reported \cup {u.id} ELSE fill_reported

\* OrderManager.handle_edgex_order_update: arm the hedge
arm_hedge(u) ==
    /\ current_lighter_side' = Opposite(u.side)
    /\ current_lighter_quantity' = u.cum
    /\ waiting_for_lighter_fill' = TRUE
    /\ fill_reported' = IF pc \in InPipeline /\ u.id = ticket
                        THEN fill_reported \cup {u.id} ELSE fill_reported

\* a handler that takes a partial fill for a fill as well
seen_status_partial(u) ==
    IF u.status \in {"CANCELED", "PARTIALLY_FILLED"} /\ u.cum > 0 THEN "FILLED" ELSE u.status

\* a handler that stores the status as the venue sent it
seen_status_as_sent(u) == u.status

\* the status the handlers store: a cancel that had traded counts as a fill
seen_status(u) == IF u.status = "CANCELED" /\ u.cum > 0 THEN "FILLED" ELSE u.status

\* where the main task is while a resync waits for the venues: the periodic one, and
\* the verification after a trade from its sleep on
Resyncing == {"sync_m", "sync_t", "sync_apply", "verify_m", "verify_t", "verify_apply"}

\* EdgexArb._handle_edgex_order_update
handle_edgex_order_update(u) ==
    IF u.id # edgex_client_order_id
    THEN UNCHANGED <<edgex_order_status, m_pos, applied, holding_time_hours, current_lighter_side,
                     current_lighter_quantity, waiting_for_lighter_fill, fill_reported>>
    ELSE /\ edgex_order_status' = seen_status(u)
         /\ IF seen_status(u) = "FILLED" /\ u.cum > 0
            THEN LET new == m_pos + Signed(u.side, u.cum)
                     closed == IF u.side = "buy" THEN m_pos < 0 /\ new >= 0
                                                 ELSE m_pos > 0 /\ new <= 0
                 IN  /\ m_pos' = new
                     /\ applied' = [applied EXCEPT ![u.id] = Min(@ + 1, MaxApplied)]
                     /\ holding_time_hours' =
                            IF closed /\ holding_time_hours # NotOpen
                            THEN NotOpen ELSE holding_time_hours
                     /\ arm_hedge(u)
            ELSE UNCHANGED <<m_pos, applied, holding_time_hours, current_lighter_side,
                             current_lighter_quantity, waiting_for_lighter_fill, fill_reported>>

\* StandxArb._handle_standx_order_update
handle_standx_order_update(u) ==
    /\ edgex_order_status' = seen_status(u)
    /\ holding_time_hours' = holding_time_hours
    /\ IF seen_status(u) = "FILLED" /\ u.cum > 0
       THEN /\ m_pos' = m_pos + Signed(u.side, u.cum)
            /\ applied' = [applied EXCEPT ![u.id] = Min(@ + 1, MaxApplied)]
            /\ IF current_order_id # 0 /\ u.id # current_order_id
               THEN UNCHANGED <<current_lighter_side, current_lighter_quantity,
                                waiting_for_lighter_fill, fill_reported>>
               ELSE arm_hedge(u)
       ELSE UNCHANGED <<m_pos, applied, current_lighter_side, current_lighter_quantity,
                        waiting_for_lighter_fill, fill_reported>>

\* the websocket hands the next order update to the engine's handler
DeliverMaker ==
    /\ mq # <<>>
    /\ maker_ws_up
    /\ pc \notin NoAwait \cup Halted
    /\ IF engine = "edgex" THEN handle_edgex_order_update(Head(mq))
                           ELSE handle_standx_order_update(Head(mq))
    /\ mq' = Tail(mq)
    /\ fill_in_resync' = (fill_in_resync \/ (pc \in Resyncing /\ m_pos' # m_pos))
    /\ UNCHANGED <<cfgv, dtv, cleanv, resends, prev, pc, stop_flag, wsv, bbo, signal, actual_m, actual_t,
                   last_position_sync_time, t_pos,
                   edgex_client_order_id, order_execution_complete, lighter_order_filled,
                   current_order_id, leg_stop, ticket, orders, vm_pos, takerv>>

\* _handle_lighter_order_filled, on the next fill message of the taker venue
DeliverTaker ==
    /\ tq # <<>>
    /\ taker_ws_up
    /\ pc \notin NoAwait \cup Halted
    /\ t_pos' = t_pos + (IF Head(tq).is_ask THEN -Head(tq).filled ELSE Head(tq).filled)
    /\ lighter_order_filled' = TRUE
    /\ order_execution_complete' = TRUE
    /\ tq' = Tail(tq)
    /\ fill_in_resync' = (fill_in_resync \/ (pc \in Resyncing /\ t_pos' # t_pos))
    /\ UNCHANGED <<cfgv, applied, dtv, cleanv, resends, prev, pc, stop_flag, wsv, bbo, signal, holding_time_hours,
                   actual_m, actual_t, last_position_sync_time, m_pos,
                   edgex_order_status, edgex_client_order_id, waiting_for_lighter_fill,
                   current_lighter_side, current_lighter_quantity,
                   current_order_id, leg_stop, ticket, makerv, vt_pos, hedges, fill_reported>>

\* what shutdown() closes: the websocket manager, the data logger (the CSV files) and
\* the handlers of the logger (the log file)
ShutdownCloses == {"ws_manager", "data_logger", "log_handlers"}

\* shutdown() past its test of stop_flag
shutdown ==
    /\ stop_flag' = TRUE
    /\ taker_ws_up' = FALSE
    /\ maker_ws_up' = (engine = "standx")
    /\ resources_closed' = resources_closed \cup ShutdownCloses

\* SIGINT/SIGTERM: shutdown() as the signal handler
Shutdown ==
    /\ ~stop_flag
    /\ pc \notin Halted
    /\ shutdown
    /\ UNCHANGED <<cfgv, applied, dtv, resends, prev, pc, bbo, signal, holding_time_hours, syncv, trackv,
                   omv, current_order_id, leg_stop, ticket, makerv, takerv, fill_reported,
                   cleanup_pc, pending_orders, cancel_sent, edgex_pos, lighter_pos, flatten_orders,
                   checks, attempted, failed, logged, cleanup_raised>>

\* an hour of holding time passes
Tick ==
    /\ pc = "loop"
    /\ holding_time_hours # NotOpen
    /\ holding_time_hours < MaxHours
    /\ holding_time_hours' = holding_time_hours + 1
    /\ UNCHANGED <<cfgv, applied, dtv, cleanv, resends, prev, pc, stop_flag, wsv, bbo, signal, syncv, trackv,
                   omv, current_order_id, leg_stop, ticket, makerv, takerv, fill_reported>>

\* ---- EdgexArb.trading_loop ----------------------------------------------------
\* the naked test that follows the periodic resync: pause, or go on to the quotes
after_sync(m, t) == IF naked(m, t) THEN "naked_sleep" ELSE "bbo"

\* a comparison that looks at the maker venue alone
resynced_on_maker(m, t, am, at) ==
    IF Abs(am - m) > SyncTolerance THEN <<am, at>> ELSE <<m, t>>

\* cached positions after a comparison with the positions read from the venues
resynced(m, t, am, at) ==
    IF Abs(am - m) > SyncTolerance \/ Abs(at - t) > SyncTolerance
    THEN <<am, at>> ELSE <<m, t>>

\* top of an iteration: leave on stop_flag, start the periodic resync when it is due
LoopTop ==
    /\ pc = "loop"
    /\ signal' = "none"
    /\ bbo' = NoBBO
    /\ ticket' = 0
    /\ m_before' = 0 /\ t_before' = 0
    /\ IF stop_flag THEN pc' = "exit"
       ELSE \E due \in BOOLEAN :
                /\ ~last_position_sync_time => due
                /\ pc' = IF due THEN "sync_m" ELSE after_sync(m_pos, t_pos)
    /\ UNCHANGED <<cfgv, applied, dtv, cleanv, resends, stop_flag, wsv, holding_time_hours, syncv, trackv,
                   omv, current_order_id, leg_stop, makerv, takerv, fill_reported>>

\* get_edgex_position answers, or raises and the resync is skipped
SyncReadM ==
    /\ pc = "sync_m"
    /\ \/ /\ actual_m' = vm_pos
          /\ pc' = "sync_t"
          /\ fill_in_resync' = fill_in_resync
       \/ /\ actual_m' = 0
          /\ pc' = after_sync(m_pos, t_pos)
          /\ fill_in_resync' = FALSE
    /\ UNCHANGED <<cfgv, applied, dtv, cleanv, resends, prev, stop_flag, wsv, bbo, signal, holding_time_hours, actual_t,
                   last_position_sync_time, trackv, omv, current_order_id, leg_stop, ticket,
                   makerv, takerv, fill_reported>>

\* get_lighter_position reads the taker venue, then sleeps
SyncReadT ==
    /\ pc = "sync_t"
    /\ actual_t' = vt_pos
    /\ pc' = "sync_apply"
    /\ UNCHANGED <<cfgv, applied, dtv, cleanv, resends, prev, stop_flag, wsv, bbo, signal, holding_time_hours, actual_m,
                   last_position_sync_time, fill_in_resync, trackv, omv, current_order_id, leg_stop, ticket,
                   makerv, takerv, fill_reported>>

\* the cache is compared with what was read and replaced on a difference
SyncApply ==
    /\ pc = "sync_apply"
    /\ LET r == resynced(m_pos, t_pos, actual_m, actual_t)
       IN  /\ m_pos' = r[1]
           /\ t_pos' = r[2]
           /\ pc' = after_sync(r[1], r[2])
    /\ last_position_sync_time' = TRUE
    /\ actual_m' = 0 /\ actual_t' = 0
    /\ fill_in_resync' = FALSE
    /\ UNCHANGED <<cfgv, applied, dtv, cleanv, resends, prev, stop_flag, wsv, bbo, signal, holding_time_hours,
                   omv, current_order_id, leg_stop, ticket, makerv, takerv, fill_reported>>

\* the 60 s pause of a naked iteration ends
NakedSleep ==
    /\ pc = "naked_sleep"
    /\ pc' = "loop"
    /\ UNCHANGED <<cfgv, applied, dtv, cleanv, resends, prev, stop_flag, wsv, bbo, signal, holding_time_hours, syncv, trackv,
                   omv, current_order_id, leg_stop, ticket, makerv, takerv, fill_reported>>

\* the quotes of the iteration: the cached maker quote when it is usable, else REST
LoopBBO ==
    /\ pc = "bbo"
    /\ \/ \E t \in TakerQuotes, q \in MakerQuotes :
            /\ q[1] > 0 /\ q[2] > 0
            /\ bbo' = [eb |-> q[1], ea |-> q[2], lb |-> t[1], la |-> t[2], src |-> "ws",
                        cur |-> 0]
            /\ pc' = "decide"
       \/ /\ bbo' = bbo
          /\ pc' = "bbo_rest"
    /\ UNCHANGED <<cfgv, applied, dtv, cleanv, resends, prev, stop_flag, wsv, signal, holding_time_hours, syncv, trackv,
                   omv, current_order_id, leg_stop, ticket, makerv, takerv, fill_reported>>

\* fetch_edgex_bbo_prices over REST answers, times out or raises
BBORest ==
    /\ pc = "bbo_rest"
    /\ \/ \E t \in RestTakerQuotes, q \in MakerQuotes, c \in CachedQuotes :
            /\ bbo' = [eb |-> q[1], ea |-> q[2], lb |-> t[1], la |-> t[2], src |-> "rest",
                        cur |-> c]
            /\ pc' = "decide"
       \/ /\ bbo' = bbo
          /\ pc' = "loop"
    /\ UNCHANGED <<cfgv, applied, dtv, cleanv, resends, prev, stop_flag, wsv, signal, holding_time_hours, syncv, trackv,
                   omv, current_order_id, leg_stop, ticket, makerv, takerv, fill_reported>>

\* ---- the trade pipeline of EdgexArb ------------------------------------------
side_of(sig) == IF sig = "long" THEN "buy" ELSE "sell"

\* the venue accepts a post-only order and acknowledges it
place_order(side) ==
    /\ orders' = Append(orders, [side |-> side, filled |-> 0, st |-> "live"])
    /\ mq' = IF Len(mq) < MaxQueue
             THEN Append(mq, [id |-> Len(orders) + 1, status |-> "OPEN", cum |-> 0, side |-> side])
             ELSE mq
    /\ vm_pos' = vm_pos

\* OrderManager.place_bbo_order from the new client id on: create_limit_order
\* returns the order, or raises and the pipeline's except branch stops the bot
place_bbo_order(side) ==
    /\ edgex_client_order_id' = Len(orders) + 1
    /\ \/ /\ place_order(side)
          /\ ticket' = Len(orders) + 1
          /\ stop_flag' = stop_flag
          /\ pc' = "leg_wait"
       \/ /\ UNCHANGED <<makerv, ticket>>
          /\ stop_flag' = TRUE
          /\ pc' = "loop"

\* the maker price the decision passes to the pipeline: the ask for a buy, the bid
\* for a sell
expected_price(b, sig) == IF sig = "long" THEN b.ea ELSE b.eb

\* the same side of the cached maker quote when the pipeline reads it again: what the
\* decision read when it used the cache, b.cur when it used REST
current_price(b, sig) == IF b.src = "ws" THEN expected_price(b, sig) ELSE b.cur

\* _execute_long_trade / _execute_short_trade from entry to their first await
execute_trade(sig) ==
    LET expected == expected_price(bbo, sig)
        current == current_price(bbo, sig)
    IN  /\ signal' = sig
        /\ holding_time_hours' = IF m_pos = 0 THEN 0 ELSE holding_time_hours
        /\ Len(orders) < MaxTickets
        /\    IF \/ Abs(get_net_position) > OrderQty * 2
                 \/ (current # 0 /\ expected = 0)
              THEN \* sys.exit(1), or the division by a zero expected price escapes
                   /\ pc' = "exit"
                   /\ UNCHANGED <<stop_flag, omv, leg_stop, ticket, makerv>>
              ELSE IF current # 0 /\ price_moved(current, expected)
              THEN /\ pc' = "loop"
                   /\ UNCHANGED <<stop_flag, omv, leg_stop, ticket, makerv>>
              ELSE /\ order_execution_complete' = FALSE
                   /\ waiting_for_lighter_fill' = FALSE
                   /\ leg_stop' = stop_flag
                   /\ UNCHANGED <<current_lighter_side, current_lighter_quantity,
                                  lighter_order_filled>>
                   /\ IF ~kwargs_accepted
                      THEN \* TypeError at the call, caught by except Exception
                           /\ stop_flag' = TRUE
                           /\ pc' = "loop"
                           /\ UNCHANGED <<edgex_order_status, edgex_client_order_id,
                                          ticket, makerv>>
                      ELSE /\ edgex_order_status' = None
                           /\ IF bbo.src = "ws"
                              THEN place_bbo_order(side_of(sig))
                              ELSE /\ pc' = "leg_bbo"
                                   /\ UNCHANGED <<stop_flag, edgex_client_order_id,
                                                  ticket, makerv>>

\* the pipeline is called; past MaxTickets maker orders the run is followed no further
dispatch(sig) ==
    \/ execute_trade(sig)
    \/ /\ Len(orders) >= MaxTickets
       /\ signal' = sig
       /\ pc' = "capped"
       /\ UNCHANGED <<stop_flag, holding_time_hours, omv, leg_stop, ticket, makerv>>

\* no pipeline is called: break on stop_flag, position limit reached, or no signal
no_trade(next) ==
    /\ pc' = next
    /\ signal' = "none"
    /\ UNCHANGED <<stop_flag, holding_time_hours, omv, leg_stop, ticket, makerv>>

\* spreads, thresholds, signals and the dispatch of one iteration, with the fixed
\* thresholds (USE_DYNAMIC_THRESHOLD unset): the calculator the spreads are also handed
\* to is not read by this loop, and its state is followed under SpecThreshold
Decide ==
    /\ pc = "decide"
    /\ bbo' = NoBBO
    /\ m_before' = m_pos /\ t_before' = t_pos
    /\ IF stop_flag THEN no_trade("exit")
       ELSE IF long_ex(bbo, m_pos)
       THEN IF long_allowed(m_pos) THEN dispatch("long") ELSE no_trade("loop")
       ELSE IF short_ex(bbo, m_pos, holding_time_hours)
       THEN IF short_allowed(m_pos) THEN dispatch("short") ELSE no_trade("loop")
       ELSE no_trade("loop")
    /\ UNCHANGED <<cfgv, applied, dtv, cleanv, resends, wsv, syncv, trackv, current_order_id, takerv, fill_reported>>

\* place_bbo_order after its REST quote: the quote raises, or the order is sent
LegPlace ==
    /\ pc = "leg_bbo"
    /\ \/ place_bbo_order(side_of(signal))
       \/ /\ stop_flag' = TRUE
          /\ pc' = "loop"
          /\ UNCHANGED <<edgex_client_order_id, ticket, makerv>>
    /\ UNCHANGED <<cfgv, applied, dtv, cleanv, resends, prev, wsv, bbo, signal, holding_time_hours, syncv, trackv,
                   edgex_order_status, order_execution_complete, waiting_for_lighter_fill,
                   current_lighter_side, current_lighter_quantity, lighter_order_filled,
                   current_order_id, leg_stop, takerv, fill_reported>>

\* the venue's answer to cancel_order: the resting order is canceled, or nothing happens
cancel_order(i) ==
    \/ /\ orders[i].st = "live"
       /\ Len(mq) < MaxQueue
       /\ orders' = [orders EXCEPT ![i].st = "canceled"]
       /\ mq' = Append(mq, Update(i, "CANCELED"))
       /\ vm_pos' = vm_pos
    \/ UNCHANGED makerv

\* a wait loop that does not know the status OPEN and returns on it
ActiveStatusesWithoutOpen == {"NEW", "PENDING", "CANCELING", "PARTIALLY_FILLED"}

\* the statuses on which the wait loop of place_edgex_post_only_order sleeps again
ActiveStatuses == {"NEW", "OPEN", "PENDING", "CANCELING", "PARTIALLY_FILLED"}

\* one pass of the wait loop of place_edgex_post_only_order, and the return to the pipeline
LegPoll ==
    /\ pc = "leg_wait"
    /\ IF leg_stop \/ edgex_order_status = "FILLED"
       THEN /\ pc' = IF stop_flag THEN "loop" ELSE "hedge_loop"
            /\ cancel_sent' = {}
            /\ UNCHANGED makerv
       ELSE IF edgex_order_status = "CANCELED"
       THEN /\ pc' = "loop"
            /\ cancel_sent' = {}
            /\ UNCHANGED makerv
       ELSE IF edgex_order_status \in ActiveStatuses
       THEN \* sleep 0.5; past the 5 s the cancel is requested, on every pass
            /\ pc' = pc
            /\ \/ cancel_order(ticket) /\ cancel_sent' = cancel_sent \cup {ticket}
               \/ UNCHANGED <<makerv, cancel_sent>>
       ELSE IF edgex_order_status # None
       THEN /\ pc' = "loop"
            /\ cancel_sent' = {}
            /\ UNCHANGED makerv
       ELSE \* no update has been seen: sleep 0.5, and the elapsed time is not looked at
            UNCHANGED <<pc, makerv, cancel_sent>>
    /\ UNCHANGED <<cfgv, applied, dtv, closev, resends, prev, stop_flag, wsv, bbo, signal, holding_time_hours, syncv, trackv,
                   omv, current_order_id, leg_stop, ticket, takerv, fill_reported>>

\* ---- the taker leg -------------------------------------------------------------
\* OrderManager.place_lighter_market_order up to monitor_lighter_order.
\* The Lighter book is not ready and it raises:
lighter_not_ready(next) ==
    /\ pc' = next
    /\ UNCHANGED <<lighter_order_filled, leg_stop, takerv>>

\* signing or sending fails and it returns None:
lighter_send_failed(next) ==
    /\ lighter_order_filled' = FALSE
    /\ pc' = next
    /\ UNCHANGED <<leg_stop, takerv>>

\* the IOC order reaches the venue, which fills k of it, and the monitor starts:
lighter_sent ==
    /\ lighter_order_filled' = FALSE
    /\ Len(tq) < MaxQueue
    /\ \E k \in 0..current_lighter_quantity :
          /\ hedges' = Append(hedges, [tk |-> ticket, side |-> current_lighter_side,
                                       qty |-> current_lighter_quantity, fill |-> k])
          /\ vt_pos' = vt_pos + Signed(current_lighter_side, k)
          /\ tq' = IF k > 0
                   THEN Append(tq, [is_ask |-> current_lighter_side = "sell", filled |-> k])
                   ELSE tq
    /\ leg_stop' = stop_flag
    /\ pc' = "monitor"

place_lighter_market_order(onRaise, onNone) ==
    \/ lighter_not_ready(onRaise)
    \/ lighter_send_failed(onNone)
    \/ lighter_sent

\* the loop of the pipeline that waits for the hedge to be armed and sends it
HedgeLoop ==
    /\ pc = "hedge_loop"
    /\ IF order_execution_complete \/ stop_flag
       THEN /\ pc' = "verify_m"
            /\ UNCHANGED <<lighter_order_filled, leg_stop, takerv>>
       ELSE IF waiting_for_lighter_fill
       THEN place_lighter_market_order("exit", "verify_m")
       ELSE \* the 180 s run out
            /\ pc' = "verify_m"
            /\ UNCHANGED <<lighter_order_filled, leg_stop, takerv>>
    /\ UNCHANGED <<cfgv, applied, dtv, cleanv, resends, prev, stop_flag, wsv, bbo, signal, holding_time_hours, syncv, trackv,
                   edgex_order_status, edgex_client_order_id, order_execution_complete,
                   waiting_for_lighter_fill, current_lighter_side, current_lighter_quantity,
                   current_order_id, ticket, makerv, fill_reported>>

\* a fallback that marks the order as filled and leaves the execution open
fallback_order_only ==
    /\ lighter_order_filled' = TRUE
    /\ waiting_for_lighter_fill' = FALSE
    /\ order_execution_complete' = order_execution_complete

\* the fallback of monitor_lighter_order after 30 s: the status query has no answer
fallback ==
    /\ lighter_order_filled' = TRUE
    /\ waiting_for_lighter_fill' = FALSE
    /\ order_execution_complete' = TRUE

\* monitor_lighter_order: the fill has been seen, or the 30 s run out and the order
\* is marked as filled; then the rest of the caller up to its next await
MonitorPoll ==
    /\ pc = "monitor"
    /\ IF lighter_order_filled \/ leg_stop
       THEN UNCHANGED <<lighter_order_filled, waiting_for_lighter_fill, order_execution_complete>>
       ELSE fallback
    /\ IF engine = "edgex"
       THEN pc' = "verify_m" /\ current_order_id' = current_order_id
       ELSE pc' = "s_loop" /\ current_order_id' = 0
    /\ UNCHANGED <<cfgv, applied, dtv, cleanv, resends, prev, stop_flag, wsv, bbo, signal, holding_time_hours, syncv, trackv,
                   edgex_order_status, edgex_client_order_id, current_lighter_side,
                   current_lighter_quantity, leg_stop, ticket, makerv, takerv, fill_reported>>

\* ---- _verify_position_balance_after_trade ---------------------------------------
VerifyReadM ==
    /\ pc = "verify_m"
    /\ \/ /\ actual_m' = vm_pos
          /\ pc' = "verify_t"
          /\ fill_in_resync' = fill_in_resync
       \/ /\ actual_m' = 0
          /\ pc' = "loop"
          /\ fill_in_resync' = FALSE
    /\ UNCHANGED <<cfgv, applied, dtv, cleanv, resends, prev, stop_flag, wsv, bbo, signal, holding_time_hours, actual_t,
                   last_position_sync_time, trackv, omv, current_order_id, leg_stop, ticket,
                   makerv, takerv, fill_reported>>

VerifyReadT ==
    /\ pc = "verify_t"
    /\ actual_t' = vt_pos
    /\ pc' = "verify_apply"
    /\ UNCHANGED <<cfgv, applied, dtv, cleanv, resends, prev, stop_flag, wsv, bbo, signal, holding_time_hours, actual_m,
                   last_position_sync_time, fill_in_resync, trackv, omv, current_order_id, leg_stop, ticket,
                   makerv, takerv, fill_reported>>

VerifyApply ==
    /\ pc = "verify_apply"
    /\ LET r == resynced(m_pos, t_pos, actual_m, actual_t)
       IN  m_pos' = r[1] /\ t_pos' = r[2]
    /\ pc' = "loop"
    /\ actual_m' = 0 /\ actual_t' = 0
    /\ fill_in_resync' = FALSE
    /\ UNCHANGED <<cfgv, applied, dtv, cleanv, resends, prev, stop_flag, wsv, bbo, signal, holding_time_hours,
                   last_position_sync_time,
                   omv, current_order_id, leg_stop, ticket, makerv, takerv, fill_reported>>

\* ---- StandxArb -------------------------------------------------------------------
\* top of an iteration up to the signals: get_ticker is a blocking call, so nothing
\* runs between the loop test and the dispatch
SLoop ==
    /\ pc = "s_loop"
    /\ signal' = "none"
    /\ ticket' = 0
    /\ cancel_sent' = {}
    /\ m_before' = 0 /\ t_before' = 0
    /\ IF stop_flag THEN pc' = "exit" /\ bbo' = NoBBO
       ELSE \/ \E t \in TakerQuotes, q \in MakerQuotes :
                 /\ q[1] > 0 /\ q[2] > 0
                 /\ bbo' = [eb |-> q[1], ea |-> q[2], lb |-> t[1], la |-> t[2], src |-> "ws",
                             cur |-> 0]
                 /\ pc' = "s_decide"
            \/ \* a side of the ticker is missing, or get_ticker failed: sleep 0.5
               /\ bbo' = NoBBO
               /\ pc' = "s_loop"
    /\ UNCHANGED <<cfgv, applied, dtv, closev, resends, stop_flag, wsv, holding_time_hours, syncv, trackv,
                   omv, current_order_id, leg_stop, makerv, takerv, fill_reported>>

s_long_ex(b) == b.lb # 0 /\ b.eb # 0 /\ long_spread(b) > long_ex_threshold
s_short_ex(b) == ~s_long_ex(b) /\ b.ea # 0 /\ b.la # 0 /\ short_spread(b) > short_ex_threshold

\* StandxArb._execute_trade up to its wait loop: place_open_order has no await in it
s_execute_trade(side) ==
    /\ Len(orders) < MaxTickets
    /\ order_execution_complete' = FALSE
    /\ waiting_for_lighter_fill' = FALSE
    /\ \/ /\ place_order(side)
          /\ current_order_id' = Len(orders) + 1
          /\ ticket' = Len(orders) + 1
          /\ pc' = "s_wait"
       \/ \* the venue refuses the order, or the request raises
          /\ current_order_id' = 0
          /\ pc' = "s_loop"
          /\ UNCHANGED <<ticket, makerv>>

s_dispatch(sig) ==
    /\ signal' = sig
    /\ \/ s_execute_trade(side_of(sig))
       \/ /\ Len(orders) >= MaxTickets
          /\ pc' = "capped"
          /\ UNCHANGED <<order_execution_complete, waiting_for_lighter_fill,
                         current_order_id, ticket, makerv>>

s_no_trade ==
    /\ signal' = "none"
    /\ pc' = "s_loop"
    /\ UNCHANGED <<order_execution_complete, waiting_for_lighter_fill,
                   current_order_id, ticket, makerv>>

\* signals and dispatch of StandxArb.trading_loop
SDecide ==
    /\ pc = "s_decide"
    /\ bbo' = NoBBO
    /\ m_before' = m_pos /\ t_before' = t_pos
    /\ IF s_long_ex(bbo)
       THEN IF long_allowed(m_pos) THEN s_dispatch("long") ELSE s_no_trade
       ELSE IF s_short_ex(bbo)
       THEN IF short_allowed(m_pos) THEN s_dispatch("short") ELSE s_no_trade
       ELSE s_no_trade
    /\ UNCHANGED <<cfgv, applied, dtv, cleanv, resends, stop_flag, wsv, holding_time_hours, syncv, trackv,
                   edgex_order_status, edgex_client_order_id, current_lighter_side,
                   current_lighter_quantity, lighter_order_filled, leg_stop,
                   takerv, fill_reported>>

\* the hedge of _execute_trade: a raise is caught by its except, None clears the id
s_hedge ==
    \/ lighter_not_ready("s_loop") /\ current_order_id' = current_order_id
    \/ lighter_send_failed("s_loop") /\ current_order_id' = 0
    \/ lighter_sent /\ current_order_id' = current_order_id

\* one pass of the wait loop of _execute_trade
SWait ==
    /\ pc = "s_wait"
    /\ IF waiting_for_lighter_fill
       THEN s_hedge /\ UNCHANGED <<makerv, cancel_sent>>
       ELSE IF stop_flag
       THEN /\ pc' = "s_loop"
            /\ UNCHANGED <<current_order_id, lighter_order_filled, leg_stop, makerv, takerv,
                           cancel_sent>>
       ELSE \/ \* fill_timeout has passed: cancel_order, then the 3 s grace
               /\ cancel_order(ticket)
               /\ cancel_sent' = cancel_sent \cup {ticket}
               /\ pc' = "s_cancel_wait"
               /\ UNCHANGED <<current_order_id, lighter_order_filled, leg_stop, takerv>>
            \/ \* sleep 0.1, fill_timeout has not passed
               UNCHANGED <<pc, current_order_id, lighter_order_filled, leg_stop, makerv, takerv,
                           cancel_sent>>
    /\ UNCHANGED <<cfgv, applied, dtv, closev, resends, prev, stop_flag, wsv, bbo, signal, holding_time_hours, syncv, trackv,
                   edgex_order_status, edgex_client_order_id, order_execution_complete,
                   waiting_for_lighter_fill, current_lighter_side, current_lighter_quantity,
                   ticket, fill_reported>>

\* the grace after the cancel: a fill has been seen and is hedged, or the 3 s run out
SCancelWait ==
    /\ pc = "s_cancel_wait"
    /\ IF waiting_for_lighter_fill
       THEN s_hedge
       ELSE /\ current_order_id' = 0
            /\ pc' = "s_loop"
            /\ UNCHANGED <<lighter_order_filled, leg_stop, takerv>>
    /\ UNCHANGED <<cfgv, applied, dtv, cleanv, resends, prev, stop_flag, wsv, bbo, signal, holding_time_hours, syncv, trackv,
                   edgex_order_status, edgex_client_order_id, order_execution_complete,
                   waiting_for_lighter_fill, current_lighter_side, current_lighter_quantity,
                   ticket, makerv, fill_reported>>

\* ---- DynamicThresholdCalculator --------------------------------------------------
\* <<long_spread, short_spread>> of one iteration, in 0.01: below the floor, between
\* the floor and the ceiling, above the ceiling
SpreadSamples == {<<-60, 1500>>, <<480, 480>>, <<1500, -60>>, <<60, 600>>}

\* percentiles the calculator can be constructed with, in percent: the lowest, the
\* default and the highest
Percentiles == {0, DYNAMIC_THRESHOLD_PERCENTILE, 100}

\* deque(maxlen=window_size).append
deque_append(d, x) == IF Len(d) >= window_size THEN Append(Tail(d), x) ELSE Append(d, x)

\* sorted(): the smallest element first
RECURSIVE sorted(_)
sorted(d) ==
    IF d = <<>> THEN <<>>
    ELSE LET m == CHOOSE i \in 1..Len(d) : \A j \in 1..Len(d) : d[i] <= d[j]
         IN  <<d[m]>> \o sorted(SubSeq(d, 1, m - 1) \o SubSeq(d, m + 1, Len(d)))

RECURSIVE sum(_)
sum(d) == IF d = <<>> THEN 0 ELSE Head(d) + sum(Tail(d))

\* a / b to the nearest unit, a tie to the even one (the rounding of Decimal)
quotient(a, b) ==
    LET q == a \div b
        r == a % b
    IN  IF 2 * r < b THEN q
        ELSE IF 2 * r > b THEN q + 1
        ELSE IF q % 2 = 0 THEN q ELSE q + 1

\* the largest k in lo..hi with k * k <= n
RECURSIVE root(_, _, _)
root(n, lo, hi) ==
    IF lo >= hi THEN lo
    ELSE LET mid == (lo + hi + 1) \div 2
         IN  IF mid * mid <= n THEN root(n, mid, hi) ELSE root(n, lo, mid - 1)

\* Decimal.sqrt to the nearest unit
sqrt(n) ==
    LET r == root(n, 0, Min(n, 40000))
    IN  IF n - r * r > r THEN r + 1 ELSE r

\* mean and standard deviation of a deque, in 0.01
mean(d) == quotient(sum(d), Len(d))
variance(d) ==
    LET m == mean(d)
    IN  quotient(sum([i \in 1..Len(d) |-> (d[i] - m) * (d[i] - m)]), Len(d))
std(d) ==
    LET v == variance(d)
    IN  IF v > 0 THEN sqrt(v) ELSE 0

\* a percentile averaged with the threshold in force
smoothed_percentile(d) == (sorted(d)[((Len(d) * percentile) \div 100) + 1] + long_threshold) \div 2

\* int(len(sorted) * self.percentile)
percentile_idx(d) == (Len(d) * percentile) \div 100

\* the index is past the last sample: sorted[idx] raises IndexError
index_error(d) == percentile_idx(d) >= Len(d)

\* sorted[int(len * percentile)], the index counted from 0 in the program
percentile_value(d) == sorted(d)[percentile_idx(d) + 1]

\* safety bounds with the ceiling left out
clamp_floor_only(x) == Max(min_threshold, x)

\* max(min_threshold, min(max_threshold, x))
clamp(x) == Max(min_threshold, Min(max_threshold, x))

\* a warm-up test that is satisfied one sample early
enough_samples_one_early(ls, ss) == ~(Len(ls) < Warmup - 1 \/ Len(ss) < Warmup - 1)

\* the test _update_thresholds starts with
enough_samples(ls, ss) == ~(Len(ls) < Warmup \/ Len(ss) < Warmup)

\* _update_thresholds on the deques ls and ss
update_thresholds(ls, ss) ==
    IF ~enough_samples(ls, ss)
    THEN UNCHANGED statv
    ELSE IF index_error(ls)
    THEN UNCHANGED statv
    ELSE IF index_error(ss)
    THEN /\ long_mean' = mean(ls)
         /\ long_std' = std(ls)
         /\ UNCHANGED <<long_threshold, short_threshold, short_mean, short_std>>
    ELSE /\ long_mean' = mean(ls)
         /\ long_std' = std(ls)
         /\ short_mean' = mean(ss)
         /\ short_std' = std(ss)
         /\ long_threshold' = clamp(percentile_value(ls))
         /\ short_threshold' = clamp(percentile_value(ss))

\* _update_thresholds leaves by the IndexError of one of its two lookups
update_raises(ls, ss) == enough_samples(ls, ss) /\ (index_error(ls) \/ index_error(ss))

\* add_spread_observation, as the main loop calls it with the spreads of an iteration
add_spread_observation(l, s) ==
    LET ls == deque_append(long_spreads, l)
        ss == deque_append(short_spreads, s)
    IN  /\ long_spreads' = ls
        /\ short_spreads' = ss
        /\ IF interval_elapsed
           THEN /\ update_thresholds(ls, ss)
                /\ interval_elapsed' = update_raises(ls, ss)
                /\ updates_since_sample' = IF update_raises(ls, ss) THEN 0 ELSE 1
           ELSE /\ UNCHANGED <<statv, interval_elapsed>>
                /\ updates_since_sample' = 0
        /\ UNCHANGED <<loopv, cleanv, percentile>>

force_update ==
    /\ update_thresholds(long_spreads, short_spreads)
    /\ IF update_raises(long_spreads, short_spreads)
       THEN UNCHANGED <<interval_elapsed, updates_since_sample>>
       ELSE /\ interval_elapsed' = FALSE
            /\ updates_since_sample' = Min(updates_since_sample + 1, MaxUpdates)
    /\ UNCHANGED <<loopv, cleanv, dequev, percentile>>

\* update_interval seconds have passed since last_update_time
IntervalElapses ==
    /\ ~interval_elapsed
    /\ interval_elapsed' = TRUE
    /\ UNCHANGED <<loopv, cleanv, dequev, statv, updates_since_sample, percentile>>

\* ---- EdgexArb.run: the finally block and _async_cleanup ------------------------------
\* passes of the wait for the positions to be closed: for i in range(3)
ConfirmChecks == 3

\* venue positions <<maker, taker>> when trading_loop is left: flat, a hedged long, a
\* hedged short, a long whose hedge was filled in part, and one leg alone on either venue
ExitPositions == {<<0, 0>>, <<OrderQty, -OrderQty>>, <<-OrderQty, OrderQty>>,
                  <<OrderQty, -1>>, <<0, -1>>, <<-1, 0>>}

\* best bid and ask of the taker book the order book manager holds when trading_loop is
\* left: both sides, none (the book never became ready), one side
ExitTakerBooks == {<<101001, 101101>>, <<0, 0>>, <<101001, 0>>}

\* maker orders at the venue when trading_loop is left: none, one resting, one resting
\* after a partial fill, a finished and a resting one, two resting
ExitOrders ==
    {<<>>,
     <<[side |-> "buy", filled |-> 0, st |-> "live"]>>,
     <<[side |-> "sell", filled |-> 1, st |-> "live"]>>,
     <<[side |-> "buy", filled |-> OrderQty, st |-> "filled"],
       [side |-> "sell", filled |-> 0, st |-> "live"]>>,
     <<[side |-> "buy", filled |-> 0, st |-> "live"],
       [side |-> "buy", filled |-> 0, st |-> "live"]>>}

\* an except clause that lets the failure of a step out of the cleanup
reraise(step, next) ==
    /\ failed' = failed \cup {step}
    /\ logged' = logged
    /\ cleanup_raised' = TRUE
    /\ cleanup_pc' = "done"

\* the except clauses of the cleanup: the failure or timeout of a step is logged and
\* the cleanup goes on with what follows the try block
swallow(step, next) ==
    /\ failed' = failed \cup {step}
    /\ logged' = logged \cup {step}
    /\ cleanup_raised' = cleanup_raised
    /\ cleanup_pc' = next

\* a step ends without a failure
step_done(next) ==
    /\ cleanup_pc' = next
    /\ UNCHANGED <<failed, logged, cleanup_raised>>

\* an _async_cleanup without the test of _cleanup_done
cleanup_never_done == FALSE

\* self._cleanup_done, set when _async_cleanup is entered
cleanup_done == cleanup_pc # "running"

\* SIGINT/SIGTERM once trading_loop has been left: shutdown() runs again as the handler
ShutdownAgain ==
    /\ pc = "exit"
    /\ IF stop_flag THEN UNCHANGED <<stop_flag, wsv, resources_closed>> ELSE shutdown
    /\ UNCHANGED <<cfgv, applied, dtv, resends, prev, pc, bbo, signal, holding_time_hours, syncv, trackv,
                   omv, current_order_id, leg_stop, ticket, makerv, takerv, fill_reported,
                   cleanup_pc, pending_orders, cancel_sent, edgex_pos, lighter_pos, flatten_orders,
                   checks, attempted, failed, logged, cleanup_raised>>

\* _async_cleanup() called again after the call run() awaits has returned
AsyncCleanupAgain ==
    /\ pc = "exit"
    /\ cleanup_pc = "done"
    /\ cleanup_pc' = IF cleanup_done THEN cleanup_pc ELSE "cancel_query"
    /\ UNCHANGED <<cfgv, applied, dtv, resends, prev, pc, stop_flag, wsv, bbo, signal, holding_time_hours,
                   syncv, trackv, omv, current_order_id, leg_stop, ticket, makerv, takerv,
                   fill_reported, resources_closed, pending_orders, cancel_sent, edgex_pos,
                   lighter_pos, flatten_orders, checks, attempted, failed, logged, cleanup_raised>>

\* the finally block of run(): shutdown(), which returns at once when stop_flag is
\* set already, then _async_cleanup up to its first await
RunFinally ==
    /\ cleanup_pc = "running"
    /\ pc = "exit"
    /\ IF stop_flag THEN UNCHANGED <<stop_flag, wsv, resources_closed>> ELSE shutdown
    /\ cleanup_pc' = "cancel_query"
    /\ UNCHANGED <<cfgv, applied, dtv, resends, prev, pc, bbo, signal, holding_time_hours, syncv, trackv,
                   omv, current_order_id, leg_stop, ticket, makerv, takerv, fill_reported,
                   pending_orders, cancel_sent, edgex_pos, lighter_pos, flatten_orders,
                   checks, attempted, failed, logged, cleanup_raised>>

is_live(i) == orders[i].st = "live"

\* the ids get_active_orders returns with status NEW, OPEN, PENDING or PARTIALLY_FILLED
active_orders == SelectSeq([i \in 1..Len(orders) |-> i], is_live)

\* _cancel_all_pending_orders: get_active_orders answers, or times out or raises
CancelQuery ==
    /\ cleanup_pc = "cancel_query"
    /\ attempted' = attempted \cup {"cancel_orders"}
    /\ \/ /\ pending_orders' = active_orders
          /\ step_done(IF active_orders = <<>> THEN "positions" ELSE "cancel_orders")
       \/ /\ pending_orders' = pending_orders
          /\ swallow("get_active_orders", "positions")
    /\ UNCHANGED <<cfgv, applied, dtv, loopv, resources_closed, cancel_sent, edgex_pos, lighter_pos,
                   flatten_orders, checks>>

\* the cancel of the next pending order: the venue takes it, or it raises or times out
\* and the loop goes on, or the 10 s of the whole step have run out
CancelOne ==
    /\ cleanup_pc = "cancel_orders"
    /\ LET i == Head(pending_orders)
           next == IF Tail(pending_orders) = <<>> THEN "positions" ELSE "cancel_orders"
       IN  \/ /\ cancel_sent' = cancel_sent \cup {i}
              /\ orders' = [orders EXCEPT ![i].st = IF @ = "live" THEN "canceled" ELSE @]
              /\ pending_orders' = Tail(pending_orders)
              /\ step_done(next)
           \/ /\ cancel_sent' = cancel_sent \cup {i}
              /\ orders' = orders
              /\ pending_orders' = Tail(pending_orders)
              /\ swallow("cancel_order", next)
           \/ /\ UNCHANGED <<cancel_sent, orders>>
              /\ pending_orders' = <<>>
              /\ swallow("cancel_all_pending_orders", "positions")
    /\ UNCHANGED <<cfgv, applied, dtv, resends, prev, pc, stop_flag, wsv, bbo, signal, holding_time_hours, syncv,
                   trackv, omv, current_order_id, leg_stop, ticket, mq, vm_pos, takerv,
                   fill_reported, resources_closed, edgex_pos, lighter_pos, flatten_orders,
                   checks, attempted>>

\* _close_all_positions: both positions are read from the venues (a position counts
\* above 0.001, a tenth of the unit), or a read raises
ReadPositions ==
    /\ cleanup_pc = "positions"
    /\ attempted' = attempted \cup {"close_positions"}
    /\ \/ /\ edgex_pos' = vm_pos
          /\ lighter_pos' = vt_pos
          /\ step_done(IF vm_pos # 0 THEN "flatten_m"
                       ELSE IF vt_pos # 0 THEN "flatten_t" ELSE "close_clients")
       \/ /\ UNCHANGED <<edgex_pos, lighter_pos>>
          /\ swallow("get_positions", "close_clients")
    /\ UNCHANGED <<cfgv, applied, dtv, loopv, resources_closed, pending_orders, cancel_sent,
                   flatten_orders, checks>>

\* an order that closes a position by trading in its direction
flatten_order_same_side(venue, pos, k) ==
    [venue |-> venue, side |-> IF pos > 0 THEN "buy" ELSE "sell", qty |-> Abs(pos),
     post_only |-> FALSE, fill |-> k]

\* the order that closes position pos: sell what is long, buy what is short, the whole
\* of it, not post-only (a limit at the opposite best price on the maker venue, an IOC
\* limit 1.5 % through the book on the taker venue); the venue fills k of it at once
flatten_order(venue, pos, k) ==
    [venue |-> venue, side |-> IF pos > 0 THEN "sell" ELSE "buy", qty |-> Abs(pos),
     post_only |-> FALSE, fill |-> k]

\* the maker position is closed: the order is sent, or the quote or the order raises or
\* times out, or the 30 s of _close_all_positions have run out
FlattenM ==
    /\ cleanup_pc = "flatten_m"
    /\ attempted' = attempted \cup {"flatten_m"}
    /\ LET next == IF lighter_pos # 0 THEN "flatten_t" ELSE "confirm"
       IN  \/ \E k \in {0, Abs(edgex_pos)} :
                 LET o == flatten_order("M", edgex_pos, k)
                 IN  /\ flatten_orders' = Append(flatten_orders, o)
                     /\ vm_pos' = vm_pos + Signed(o.side, k)
                     /\ step_done(next)
           \/ /\ UNCHANGED <<flatten_orders, vm_pos>>
              /\ swallow("flatten_m", next)
           \/ /\ UNCHANGED <<flatten_orders, vm_pos>>
              /\ swallow("close_all_positions", "close_clients")
    /\ UNCHANGED <<cfgv, applied, dtv, resends, prev, pc, stop_flag, wsv, bbo, signal, holding_time_hours, syncv,
                   trackv, omv, current_order_id, leg_stop, ticket, orders, mq, takerv,
                   fill_reported, resources_closed, pending_orders, cancel_sent, edgex_pos,
                   lighter_pos, checks>>

\* get_lighter_best_levels() has both sides of the taker book
taker_book_ready == bbo.lb # 0 /\ bbo.la # 0

\* the taker position is closed: with a side of the book missing nothing is sent; else
\* the order is sent, or signing or sending raises, or the 30 s have run out
FlattenT ==
    /\ cleanup_pc = "flatten_t"
    /\ attempted' = attempted \cup {"flatten_t"}
    /\ IF ~taker_book_ready
       THEN /\ UNCHANGED <<flatten_orders, vt_pos>>
            /\ step_done("confirm")
       ELSE \/ \E k \in 0..Abs(lighter_pos) :
                  LET o == flatten_order("T", lighter_pos, k)
                  IN  /\ flatten_orders' = Append(flatten_orders, o)
                      /\ vt_pos' = vt_pos + Signed(o.side, k)
                      /\ step_done("confirm")
            \/ /\ UNCHANGED <<flatten_orders, vt_pos>>
               /\ swallow("flatten_t", "confirm")
            \/ /\ UNCHANGED <<flatten_orders, vt_pos>>
               /\ swallow("close_all_positions", "close_clients")
    /\ UNCHANGED <<cfgv, applied, dtv, resends, prev, pc, stop_flag, wsv, bbo, signal, holding_time_hours, syncv,
                   trackv, omv, current_order_id, leg_stop, ticket, makerv, tq, hedges,
                   fill_reported, resources_closed, pending_orders, cancel_sent, edgex_pos,
                   lighter_pos, checks>>

\* the rest of the closing order on the maker venue trades while the cleanup waits
VenueFlattenFill(j) ==
    /\ cleanup_pc \in {"flatten_t", "confirm"}
    /\ flatten_orders[j].venue = "M"
    /\ flatten_orders[j].fill < flatten_orders[j].qty
    /\ flatten_orders' = [flatten_orders EXCEPT ![j].fill = flatten_orders[j].qty]
    /\ vm_pos' = vm_pos + Signed(flatten_orders[j].side,
                                 flatten_orders[j].qty - flatten_orders[j].fill)
    /\ UNCHANGED <<cfgv, applied, dtv, resends, prev, pc, stop_flag, wsv, bbo, signal, holding_time_hours, syncv,
                   trackv, omv, current_order_id, leg_stop, ticket, orders, mq, takerv,
                   fill_reported, cleanup_pc, resources_closed, pending_orders, cancel_sent,
                   edgex_pos, lighter_pos, checks, attempted, failed, logged, cleanup_raised>>

\* one pass of the wait: 5 s, then both positions are read again; the wait ends when
\* both are closed or after the third pass; a read raises, or the 30 s have run out
ConfirmCheck ==
    /\ cleanup_pc = "confirm"
    /\ attempted' = attempted \cup {"wait_confirm"}
    /\ \/ /\ checks' = checks + 1
          /\ step_done(IF (vm_pos = 0 /\ vt_pos = 0) \/ checks + 1 >= ConfirmChecks
                       THEN "final_check" ELSE "confirm")
       \/ /\ checks' = checks
          /\ swallow("get_positions", "close_clients")
       \/ /\ checks' = checks
          /\ swallow("close_all_positions", "close_clients")
    /\ UNCHANGED <<cfgv, applied, dtv, loopv, resources_closed, pending_orders, cancel_sent, edgex_pos,
                   lighter_pos, flatten_orders>>

\* the positions are read once more and what is left is logged
FinalCheck ==
    /\ cleanup_pc = "final_check"
    /\ \/ step_done("close_clients")
       \/ swallow("get_positions", "close_clients")
    /\ UNCHANGED <<cfgv, applied, dtv, loopv, resources_closed, pending_orders, cancel_sent, edgex_pos,
                   lighter_pos, flatten_orders, checks, attempted>>

\* the rest of _async_cleanup: the EdgeX client is closed (or that times out or
\* raises), the EdgeX websockets are disconnected, the Lighter websocket task is
\* cancelled, the log handlers are flushed, the data logger is closed
CloseClients ==
    /\ cleanup_pc = "close_clients"
    /\ attempted' = attempted \cup {"close_clients"}
    /\ \/ /\ resources_closed' = resources_closed \cup
                 {"edgex_client", "edgex_ws_manager", "lighter_ws_task", "data_logger"}
          /\ step_done("done")
       \/ /\ resources_closed' = resources_closed \cup
                 {"edgex_ws_manager", "lighter_ws_task", "data_logger"}
          /\ swallow("close_client", "done")
    /\ UNCHANGED <<cfgv, applied, dtv, loopv, pending_orders, cancel_sent, edgex_pos, lighter_pos,
                   flatten_orders, checks>>

\* ---- _execute_long_trade / _execute_short_trade: DEADLINE_EXCEEDED on the submit -----
\* passes of the wait for the order to leave the active orders
ReconcileChecks == 6

\* what the reconciliation leaves alone
reconcile_rest == <<cfgv, applied, dtv, resends, prev, wsv, bbo, signal, holding_time_hours, syncv, trackv,
                    omv, current_order_id, leg_stop, ticket, takerv, fill_reported,
                    cleanup_pc, resources_closed, pending_orders, edgex_pos, lighter_pos,
                    flatten_orders, attempted, failed, logged, cleanup_raised>>

\* the order of the current client id is among the active orders the venue lists
recent_order == edgex_client_order_id \in 1..Len(orders) /\ is_live(edgex_client_order_id)

\* the status the venue lists it with
listed_status(i) == IF orders[i].filled > 0 THEN "PARTIALLY_FILLED" ELSE "OPEN"

\* the statuses the except branch asks the cancel for
cancels_status(status) == status \in {"NEW", "OPEN", "PENDING"}

\* sleep 2, then get_active_orders and the match by clientOrderId
ReconcileQuery ==
    /\ pc = "reconcile"
    /\ \/ \* the query raises or times out: except Exception as check_error
          pc' = "declare"
       \/ \* no data in the answer, or no order of the current client id in it
          /\ ~recent_order
          /\ pc' = "declare"
       \/ /\ recent_order
          /\ pc' = IF cancels_status(listed_status(edgex_client_order_id))
                   THEN "reconcile_cancel" ELSE "reconcile_wait"
    /\ UNCHANGED <<reconcile_rest, stop_flag, makerv, cancel_sent, checks>>

\* cancel_order for the order found, its failure logged
ReconcileCancel ==
    /\ pc = "reconcile_cancel"
    /\ cancel_order(edgex_client_order_id)
    /\ cancel_sent' = cancel_sent \cup {edgex_client_order_id}
    /\ pc' = "reconcile_wait"
    /\ UNCHANGED <<reconcile_rest, stop_flag, checks>>

\* one pass of `for i in range(6)`: sleep 1 and get_active_orders again
ReconcilePoll ==
    /\ pc = "reconcile_wait"
    /\ IF checks < ReconcileChecks
       THEN \/ \* the query raises or times out
               pc' = "declare" /\ checks' = checks
            \/ \* the order is listed no more
               ~recent_order /\ pc' = "declare" /\ checks' = checks
            \/ \* it is still listed, or the answer holds no data
               pc' = pc /\ checks' = checks + 1
       ELSE pc' = "declare" /\ checks' = checks
    /\ UNCHANGED <<reconcile_rest, stop_flag, makerv, cancel_sent>>

\* the end of the except branch: stop_flag = True and return
DeclareFailure ==
    /\ pc = "declare"
    /\ stop_flag' = TRUE
    /\ pc' = "loop"
    /\ UNCHANGED <<reconcile_rest, makerv, cancel_sent, checks>>

\* ---- the program -----------------------------------------------------------------
Next ==
    \/ LoopTop \/ SyncReadM \/ SyncReadT \/ SyncApply \/ NakedSleep
    \/ LoopBBO \/ BBORest \/ Decide \/ LegPlace \/ LegPoll
    \/ HedgeLoop \/ MonitorPoll \/ VerifyReadM \/ VerifyReadT \/ VerifyApply
    \/ SLoop \/ SDecide \/ SWait \/ SCancelWait
    \/ \E i \in 1..Len(orders) : \E k \in 1..(OrderQty - orders[i].filled) : VenueFill(i, k)
    \/ \E i \in 1..Len(orders) : VenueCancel(i)
    \/ DeliverMaker \/ DeliverTaker \/ Shutdown \/ Tick

\* the calculator is constructed with the percentile the environment has by default
Init == Constructed /\ percentile = DYNAMIC_THRESHOLD_PERCENTILE

Spec == Init /\ [][Next]_vars

\* the same program on a maker feed that can repeat an update
NextStale == Next \/ \E i \in 1..Len(orders) : VenueResend(i)

SpecStale == Init /\ [][NextStale]_vars

\* the same program on a maker feed that can deliver an acknowledgement late
NextLate == Next \/ \E i \in 1..Len(orders) : VenueLate(i)

SpecLate == Init /\ [][NextLate]_vars

\* the calculator alone, fed with the spreads of successive iterations
NextThreshold ==
    \/ \E p \in SpreadSamples : add_spread_observation(p[1], p[2])
    \/ force_update
    \/ IntervalElapses

\* the calculator EdgexArb constructs, before the first iteration of its loop
InitThreshold ==
    /\ Constructed
    /\ percentile \in Percentiles
    /\ engine = "edgex" /\ kwargs_accepted /\ max_position = 0 /\ enable_time_based_close
    /\ m_pos = 0

SpecThreshold == InitThreshold /\ [][NextThreshold]_vars

\* run() from the moment trading_loop is left
NextShutdown ==
    \/ RunFinally \/ CancelQuery \/ CancelOne \/ ReadPositions
    \/ FlattenM \/ FlattenT \/ ConfirmCheck \/ FinalCheck \/ CloseClients
    \/ \E j \in 1..Len(flatten_orders) : VenueFlattenFill(j)
    \/ ShutdownAgain \/ AsyncCleanupAgain

\* EdgexArb when trading_loop is left: after a signal (shutdown() has run as its
\* handler), after a pipeline has set stop_flag on an error, or on sys.exit or an
\* exception, with stop_flag not set; bbo.lb and bbo.la are the best levels of the
\* taker book at that moment
InitShutdown ==
    /\ engine = "edgex" /\ kwargs_accepted = TRUE
    /\ max_position = OrderQty /\ enable_time_based_close = TRUE
    /\ pc = "exit"
    /\ \E way \in {"signal", "error", "raise"} :
          /\ stop_flag = (way # "raise")
          /\ maker_ws_up = (way # "signal") /\ taker_ws_up = (way # "signal")
          /\ resources_closed = IF way = "signal" THEN ShutdownCloses ELSE {}
    /\ \E t \in ExitTakerBooks : bbo = [NoBBO EXCEPT !.lb = t[1], !.la = t[2]]
    /\ signal = "none"
    /\ holding_time_hours = NotOpen
    /\ last_position_sync_time = TRUE
    /\ \E p \in ExitPositions :
          /\ vm_pos = p[1] /\ vt_pos = p[2]
          /\ m_pos = p[1] /\ t_pos = p[2]
    /\ actual_m = 0 /\ actual_t = 0
    /\ fill_in_resync = FALSE
    /\ edgex_order_status = None
    /\ edgex_client_order_id = 0
    /\ order_execution_complete = FALSE
    /\ waiting_for_lighter_fill = FALSE
    /\ current_lighter_side = None
    /\ current_lighter_quantity = 0
    /\ lighter_order_filled = FALSE
    /\ current_order_id = 0
    /\ leg_stop = FALSE
    /\ ticket = 0
    /\ orders \in ExitOrders
    /\ mq = <<>>
    /\ tq = <<>>
    /\ hedges = <<>>
    /\ fill_reported = {}
    /\ applied = [i \in 1..MaxTickets |-> 0]
    /\ m_before = 0 /\ t_before = 0
    /\ resends = 0
    /\ long_spreads = <<>> /\ short_spreads = <<>>
    /\ long_threshold = min_threshold /\ short_threshold = min_threshold
    /\ long_mean = 0 /\ long_std = 0 /\ short_mean = 0 /\ short_std = 0
    /\ interval_elapsed = FALSE
    /\ percentile = DYNAMIC_THRESHOLD_PERCENTILE
    /\ updates_since_sample = 0
    /\ cleanup_pc = "running"
    /\ pending_orders = <<>>
    /\ cancel_sent = {}
    /\ edgex_pos = 0 /\ lighter_pos = 0
    /\ flatten_orders = <<>>
    /\ checks = 0
    /\ attempted = {}
    /\ failed = {} /\ logged = {}
    /\ cleanup_raised = FALSE

SpecShutdown == InitShutdown /\ [][NextShutdown]_vars

\* ---- the maker leg alone ---------------------------------------------------------
\* pipeline positions where the maker leg waits for its order
LegWaits == {"leg_wait", "s_wait", "s_cancel_wait"}

\* the leg, the venue, the feed and the signal handler
NextLeg ==
    \/ LegPoll \/ SWait \/ SCancelWait
    \/ \E i \in 1..Len(orders) : \E k \in 1..(OrderQty - orders[i].filled) : VenueFill(i, k)
    \/ \E i \in 1..Len(orders) : VenueCancel(i)
    \/ DeliverMaker \/ Shutdown

\* the first pipeline of a run has just placed its maker order: what Decide and
\* place_bbo_order, or SDecide and s_execute_trade, leave behind
InitLeg ==
    /\ engine \in {"edgex", "standx"}
    /\ kwargs_accepted = (engine = "edgex")
    /\ max_position = OrderQty
    /\ enable_time_based_close = TRUE
    /\ pc = IF engine = "edgex" THEN "leg_wait" ELSE "s_wait"
    /\ stop_flag = FALSE
    /\ maker_ws_up = TRUE /\ taker_ws_up = TRUE
    /\ bbo = NoBBO
    /\ signal \in {"long", "short"}
    /\ \E p \in StartPositions :
          /\ IF signal = "long" THEN long_allowed(p[1]) ELSE short_allowed(p[1])
          /\ vm_pos = p[1] /\ vt_pos = p[2]
          /\ m_pos = p[1] /\ t_pos = p[2]
          /\ m_before = p[1] /\ t_before = p[2]
          /\ holding_time_hours = IF engine = "edgex" /\ p[1] = 0 THEN 0 ELSE NotOpen
    /\ last_position_sync_time = (engine = "edgex")
    /\ actual_m = vm_pos /\ actual_t = vt_pos
    /\ fill_in_resync = FALSE
    /\ edgex_order_status = None
    /\ edgex_client_order_id = IF engine = "edgex" THEN 1 ELSE 0
    /\ order_execution_complete = FALSE
    /\ waiting_for_lighter_fill = FALSE
    /\ current_lighter_side = None
    /\ current_lighter_quantity = 0
    /\ lighter_order_filled = FALSE
    /\ current_order_id = IF engine = "standx" THEN 1 ELSE 0
    /\ leg_stop = FALSE
    /\ ticket = 1
    /\ orders = <<[side |-> side_of(signal), filled |-> 0, st |-> "live"]>>
    /\ mq = <<[id |-> 1, status |-> "OPEN", cum |-> 0, side |-> side_of(signal)]>>
    /\ tq = <<>>
    /\ hedges = <<>>
    /\ fill_reported = {}
    /\ applied = [i \in 1..MaxTickets |-> 0]
    /\ resends = 0
    /\ long_spreads = <<>> /\ short_spreads = <<>>
    /\ long_threshold = min_threshold /\ short_threshold = min_threshold
    /\ long_mean = 0 /\ long_std = 0 /\ short_mean = 0 /\ short_std = 0
    /\ interval_elapsed = FALSE
    /\ percentile = DYNAMIC_THRESHOLD_PERCENTILE
    /\ updates_since_sample = 0
    /\ cleanup_pc = "running"
    /\ resources_closed = {}
    /\ pending_orders = <<>>
    /\ cancel_sent = {}
    /\ edgex_pos = 0 /\ lighter_pos = 0
    /\ flatten_orders = <<>>
    /\ checks = 0
    /\ attempted = {}
    /\ failed = {} /\ logged = {}
    /\ cleanup_raised = FALSE

\* the main task is scheduled again after each sleep of its wait loops; nothing is
\* assumed of the venue or of the feed
SpecLeg ==
    /\ InitLeg /\ [][NextLeg]_vars
    /\ WF_vars(LegPoll) /\ WF_vars(SWait) /\ WF_vars(SCancelWait)

\* ---- the reconciliation alone -----------------------------------------------------
NextReconcile ==
    \/ ReconcileQuery \/ ReconcileCancel \/ ReconcilePoll \/ DeclareFailure
    \/ \E i \in 1..Len(orders) : \E k \in 1..(OrderQty - orders[i].filled) : VenueFill(i, k)
    \/ \E i \in 1..Len(orders) : VenueCancel(i)
    \/ DeliverMaker

\* create_limit_order of the first pipeline of a run has raised DEADLINE_EXCEEDED: the
\* client id is set, and the venue has taken the order or has not
InitReconcile ==
    /\ engine = "edgex"
    /\ kwargs_accepted = TRUE
    /\ max_position = OrderQty
    /\ enable_time_based_close = TRUE
    /\ pc = "reconcile"
    /\ stop_flag = FALSE
    /\ maker_ws_up = TRUE /\ taker_ws_up = TRUE
    /\ bbo = NoBBO
    /\ signal \in {"long", "short"}
    /\ \E p \in StartPositions :
          /\ IF signal = "long" THEN long_allowed(p[1]) ELSE short_allowed(p[1])
          /\ vm_pos = p[1] /\ vt_pos = p[2]
          /\ m_pos = p[1] /\ t_pos = p[2]
          /\ m_before = p[1] /\ t_before = p[2]
          /\ holding_time_hours = IF p[1] = 0 THEN 0 ELSE NotOpen
    /\ last_position_sync_time = TRUE
    /\ actual_m = vm_pos /\ actual_t = vt_pos
    /\ fill_in_resync = FALSE
    /\ edgex_order_status = None
    /\ edgex_client_order_id = 1
    /\ order_execution_complete = FALSE
    /\ waiting_for_lighter_fill = FALSE
    /\ current_lighter_side = None
    /\ current_lighter_quantity = 0
    /\ lighter_order_filled = FALSE
    /\ current_order_id = 0
    /\ leg_stop = FALSE
    /\ ticket = 0
    /\ \/ orders = <<>> /\ mq = <<>>
       \/ /\ orders = <<[side |-> side_of(signal), filled |-> 0, st |-> "live"]>>
          /\ mq = <<[id |-> 1, status |-> "OPEN", cum |-> 0, side |-> side_of(signal)]>>
    /\ tq = <<>>
    /\ hedges = <<>>
    /\ fill_reported = {}
    /\ applied = [i \in 1..MaxTickets |-> 0]
    /\ resends = 0
    /\ long_spreads = <<>> /\ short_spreads = <<>>
    /\ long_threshold = min_threshold /\ short_threshold = min_threshold
    /\ long_mean = 0 /\ long_std = 0 /\ short_mean = 0 /\ short_std = 0
    /\ interval_elapsed = FALSE
    /\ percentile = DYNAMIC_THRESHOLD_PERCENTILE
    /\ updates_since_sample = 0
    /\ cleanup_pc = "running"
    /\ resources_closed = {}
    /\ pending_orders = <<>>
    /\ cancel_sent = {}
    /\ edgex_pos = 0 /\ lighter_pos = 0
    /\ flatten_orders = <<>>
    /\ checks = 0
    /\ attempted = {}
    /\ failed = {} /\ logged = {}
    /\ cleanup_raised = FALSE

SpecReconcile == InitReconcile /\ [][NextReconcile]_vars

TypeOK == pc \in {"capped", "loop", "sync_m", "sync_t", "sync_apply", "naked_sleep", "bbo", "bbo_rest",
                  "decide", "leg_bbo", "leg_wait", "hedge_loop", "monitor",
                  "verify_m", "verify_t", "verify_apply", "exit",
                  "s_loop", "s_decide", "s_wait", "s_cancel_wait",
                  "reconcile", "reconcile_cancel", "reconcile_wait", "declare"}

\* ---- the dispatch of EdgexArb -----------------------------------------------------
\* a step of Decide, the only step that leaves pc = "decide"
EdgexDecides == engine = "edgex" /\ pc = "decide" /\ pc' # "decide"

\* C6: an iteration of EdgexArb whose naked test finds both cached positions above
\* tau or both below -tau goes on to no quote, signal or order: only a cache that is
\* not naked passes the test, and the pause of a naked iteration ends at the top of
\* the loop, where the test is made again, with no order placed meanwhile.
C6_NakedHaltsTrading ==
    [][/\ (pc # "bbo" /\ pc' = "bbo") =>
            ~((m_pos' > Tau /\ t_pos' > Tau) \/ (m_pos' < -Tau /\ t_pos' < -Tau))
       /\ pc = "naked_sleep" =>
            /\ pc' \in {"naked_sleep", "loop"}
            /\ signal' = "none"
            /\ Len(orders') = Len(orders)
            /\ hedges' = hedges]_vars

\* a naked iteration is pausing
C6_Witness ==
    /\ pc = "naked_sleep"
    /\ (m_pos > Tau /\ t_pos > Tau) \/ (m_pos < -Tau /\ t_pos < -Tau)

\* C8: when EdgexArb dispatches the long pipeline (a buy on the maker venue), the
\* taker bid minus the maker bid of the quotes it decided on is strictly above the
\* open-long threshold and the cached maker position is at most 0.
C8_OpenLongGuard ==
    [][(EdgexDecides /\ signal' = "long") =>
           (bbo.lb - bbo.eb > long_ex_threshold /\ m_pos <= 0)]_vars

\* the long pipeline has been called
C8_Witness == engine = "edgex" /\ signal = "long" /\ pc \notin {"decide", "capped"}

\* C9 as stated: a long is dispatched only above -max_position
C9_AsStated ==
    [][EdgexDecides =>
          /\ signal' = "long" => (m_pos <= 0 /\ m_pos > -max_position)
          /\ (signal' = "short" /\ m_pos <= 0) => (m_pos = 0 /\ m_pos > -max_position)]_vars

\* C9: EdgexArb dispatches the long pipeline only when the cached maker position is
\* strictly below max_position (and at most 0), and a sell that opens a short only
\* when the cached maker position is exactly 0 and strictly above -max_position.
C9_DispatchLimits ==
    [][EdgexDecides =>
          /\ signal' = "long" => (m_pos <= 0 /\ m_pos < max_position)
          /\ (signal' = "short" /\ m_pos <= 0) => (m_pos = 0 /\ m_pos > -max_position)]_vars

\* a long has been dispatched with the cached maker position at -max_position or below
C9_Witness ==
    /\ engine = "edgex" /\ signal = "long" /\ pc = "loop"
    /\ m_pos <= -max_position /\ m_pos < 0

\* C10: when EdgexArb decides with a long cached maker position, it calls the short
\* pipeline exactly when short_spread is above max(open_short_th * close_mul,
\* min_close) for the stage of the holding time; with no position a sell needs
\* short_spread above open_short_th; with a short position no sell is dispatched.
C10_SellRule ==
    [][(EdgexDecides /\ ~stop_flag) =>
          LET st == get_time_based_close_thresholds(holding_time_hours)
              close_th == Max(short_ex_threshold * st[1], st[2] * 100)
          IN  /\ m_pos > 0 => (signal' = "short" <=> short_spread(bbo) * 100 > close_th)
              /\ (m_pos = 0 /\ signal' = "short") => short_spread(bbo) > short_ex_threshold
              /\ m_pos < 0 => signal' # "short"]_vars

\* a long held for two hours is being closed below the opening threshold
C10_Witness ==
    /\ engine = "edgex" /\ signal = "short" /\ m_pos > 0
    /\ holding_time_hours >= time_based_close_stage2_hours
    /\ pc \notin {"decide"}

\* ---- the trade pipeline ------------------------------------------------------------
\* C1: every hedge order sent to the taker venue has the size of the cumulative fill
\* of the maker order of the pipeline that sent it, not the requested order size.
C1_HedgeSizeIsCumFilled ==
    \A i \in 1..Len(hedges) :
        /\ hedges[i].tk \in 1..Len(orders)
        /\ hedges[i].qty = orders[hedges[i].tk].filled

\* a maker order canceled after a partial fill has been hedged with that partial size
C1_Witness ==
    \E i \in 1..Len(hedges) :
        /\ hedges[i].tk \in 1..Len(orders)
        /\ orders[hedges[i].tk].st = "canceled"
        /\ hedges[i].qty = orders[hedges[i].tk].filled
        /\ hedges[i].qty < OrderQty

\* the main task leaves the pipeline it is in
PipelineReturns == pc \in InPipeline /\ pc' \notin InPipeline

\* C2: when the handler has passed a fill of the maker order of the running pipeline
\* on to the hedge, a hedge order of the opposite side has been sent to the taker
\* venue for that order by the time the pipeline returns.
C2_HedgeBeforeReturn ==
    [][(PipelineReturns /\ ticket \in fill_reported) =>
           \E i \in 1..Len(hedges') :
               /\ hedges'[i].tk = ticket
               /\ hedges'[i].side = Opposite(orders[ticket].side)]_vars

\* the hedge of the running pipeline has been sent and the venue filled all of it
HedgeFilledInFull ==
    \E i \in 1..Len(hedges) :
        hedges[i].tk = ticket /\ hedges[i].qty > 0 /\ hedges[i].fill = hedges[i].qty

\* C3: when a pipeline whose hedge was filled in full returns, the cached taker
\* position has changed by the negative of the change of the cached maker position
\* since the pipeline was called, so the cached net position is what it was.
C3_NetPreserved ==
    [][(PipelineReturns /\ HedgeFilledInFull) =>
           t_pos' - t_before = -(m_pos' - m_before)]_vars

\* C4: at most one maker order is live on the maker venue at any time.
C4_OneLiveOrder ==
    Cardinality({i \in 1..Len(orders) : orders[i].st = "live"}) <= 1

\* the handler is given a fill of an earlier maker order while the pipeline of a
\* later one is running
StaleFillDelivered ==
    /\ mq # <<>> /\ mq' = Tail(mq)
    /\ pc \in InPipeline
    /\ ticket \notin {0, Head(mq).id}
    /\ seen_status(Head(mq)) = "FILLED" /\ Head(mq).cum > 0

\* C5: a fill update of an earlier ticket that arrives while a later ticket is the
\* current one is added, signed, to the cached maker position and arms no hedge.
C5_StaleFillApplied ==
    [][StaleFillDelivered =>
           /\ m_pos' = m_pos + Signed(Head(mq).side, Head(mq).cum)
           /\ waiting_for_lighter_fill' = waiting_for_lighter_fill
           /\ current_lighter_side' = current_lighter_side
           /\ current_lighter_quantity' = current_lighter_quantity
           /\ hedges' = hedges]_vars

\* the main task is between two pipelines
BetweenPipelines ==
    pc \in {"loop", "sync_m", "sync_t", "sync_apply", "naked_sleep", "bbo", "bbo_rest",
            "decide", "s_loop", "s_decide"}

\* C7: between two pipelines the cached maker and taker positions are never both
\* above tau or both below -tau.
C7_NotNakedBetweenPipelines ==
    BetweenPipelines =>
        ~((m_pos > Tau /\ t_pos > Tau) \/ (m_pos < -Tau /\ t_pos < -Tau))

\* ---- the close stages ---------------------------------------------------------------
\* C11: with time-based close enabled (stage-3 multiplier 0, stage-3 minimum spread
\* 0), when EdgexArb decides while it holds a long cached maker position whose
\* recorded holding time is at least stage3_hours and no shutdown has been requested,
\* any strictly positive short_spread makes it call the pipeline that sells on the
\* maker venue, in that iteration.
C11_Stage3ForcesClose ==
    [][(/\ EdgexDecides /\ ~stop_flag
        /\ enable_time_based_close
        /\ m_pos > 0
        /\ holding_time_hours # NotOpen
        /\ holding_time_hours >= time_based_close_stage3_hours
        /\ short_spread(bbo) > 0) => signal' = "short"]_vars

\* a long held for three hours is being closed by the sell pipeline
C11_Witness ==
    /\ engine = "edgex" /\ enable_time_based_close
    /\ signal = "short" /\ m_pos > 0
    /\ holding_time_hours # NotOpen
    /\ holding_time_hours >= time_based_close_stage3_hours
    /\ pc \in {"leg_wait", "leg_bbo"}

\* open thresholds the close threshold is derived from: the floor and the ceiling of
\* the dynamic thresholds, the fixed thresholds, and twice those
OpenThresholds == {min_threshold, max_threshold, long_ex_threshold, short_ex_threshold,
                   2 * short_ex_threshold}

\* C12: for every open threshold, the close threshold the stage selector gives,
\* max(open_th * multiplier(age), min_spread(age)), does not go up as the holding
\* time of the position grows: from no hour to the next does it rise.
C12_StageMonotone ==
    \A th \in OpenThresholds : \A a \in 0..MaxHours :
        close_threshold(th, a + 1) <= close_threshold(th, a)

\* a position has aged into a stage whose close threshold is below the one it
\* started with, at a decision of the main loop
C12_Witness ==
    /\ engine = "edgex" /\ pc = "decide" /\ m_pos # 0
    /\ holding_time_hours >= time_based_close_stage1_hours
    /\ close_threshold(short_ex_threshold, holding_time_hours)
           < close_threshold(short_ex_threshold, 0)

\* C13: between two pipelines of EdgexArb, position_open_time is set exactly when
\* the cached maker position is not zero.
C13_OpenTimeIffPosition ==
    (engine = "edgex" /\ BetweenPipelines) =>
        (holding_time_hours # NotOpen <=> m_pos # 0)

\* ---- the dynamic thresholds ----------------------------------------------------------
\* C14: after construction and after every sequence of add_spread_observation and
\* force_update calls, long_threshold and short_threshold are both at least
\* min_threshold and at most max_threshold.
C14_ThresholdsWithinBounds ==
    /\ min_threshold <= long_threshold /\ long_threshold <= max_threshold
    /\ min_threshold <= short_threshold /\ short_threshold <= max_threshold

\* a recomputation has found the percentile of the long spreads above the ceiling
\* and that of the short spreads below the floor
C14_Witness ==
    /\ updates_since_sample >= 1
    /\ enough_samples(long_spreads, short_spreads)
    /\ percentile_value(long_spreads) > max_threshold
    /\ percentile_value(short_spreads) < min_threshold
    /\ long_threshold = max_threshold
    /\ short_threshold = min_threshold

\* C15: while either deque holds fewer samples than a recomputation needs, both
\* thresholds equal min_threshold, whatever spreads have been observed and whether
\* or not a recomputation has been attempted.
C15_WarmupKeepsFloor ==
    (Len(long_spreads) < Warmup \/ Len(short_spreads) < Warmup) =>
        (long_threshold = min_threshold /\ short_threshold = min_threshold)

\* a recomputation has been attempted one sample short of the warm-up, on spreads
\* above the floor
C15_Witness ==
    /\ Len(long_spreads) = Warmup - 1
    /\ updates_since_sample >= 1
    /\ \A i \in 1..Len(long_spreads) :
           long_spreads[i] > min_threshold /\ short_spreads[i] > min_threshold
    /\ long_threshold = min_threshold /\ short_threshold = min_threshold

\* C16: a recomputation that follows another one with no sample appended in between
\* leaves long_threshold, short_threshold and the mean and std statistics as they are.
C16_RecomputeIdempotent ==
    [][(updates_since_sample >= 1 /\ UNCHANGED dequev) => UNCHANGED statv]_vars

\* two recomputations in a row on warmed-up deques, the thresholds off the floor
C16_Witness ==
    /\ updates_since_sample >= 2
    /\ enough_samples(long_spreads, short_spreads)
    /\ long_threshold > min_threshold
    /\ short_threshold > min_threshold
    /\ long_std > 0

\* ---- the price-drift guard ------------------------------------------------------------
\* C17: when EdgexArb calls a pipeline and the maker price the pipeline reads again
\* differs from the price the decision passed to it by more than price_tolerance_pct
\* (0.05 %), the pipeline ends before its first await: no maker order is placed, no
\* hedge is sent and no order id is taken.
C17_DriftAbortsBeforeOrders ==
    [][(/\ EdgexDecides /\ signal' \in {"long", "short"}
        /\ current_price(bbo, signal') # 0
        /\ Abs(current_price(bbo, signal') - expected_price(bbo, signal')) * 10000
               > price_tolerance_pct * expected_price(bbo, signal'))
       => /\ orders' = orders /\ mq' = mq
          /\ hedges' = hedges /\ tq' = tq
          /\ edgex_client_order_id' = edgex_client_order_id
          /\ ticket' = ticket
          /\ pc' \notin InPipeline]_vars

\* a pipeline has been called and has returned on the price check: it is the only
\* return that leaves stop_flag alone and has taken no order id
C17_Witness ==
    /\ engine = "edgex" /\ pc = "loop"
    /\ signal \in {"long", "short"}
    /\ ~stop_flag
    /\ ticket = 0 /\ edgex_client_order_id = 0
    /\ orders = <<>> /\ hedges = <<>>

\* ---- empty books --------------------------------------------------------------------
\* C18: when one of the four quotes an iteration of EdgexArb decides on is zero or
\* unset, the iteration calls no pipeline, neither the long nor the short one.
C18_EmptyBookNoSignal ==
    [][(EdgexDecides /\ (bbo.eb = 0 \/ bbo.ea = 0 \/ bbo.lb = 0 \/ bbo.la = 0))
           => signal' = "none"]_vars

\* ---- the two legs -------------------------------------------------------------------
\* C19: a hedge order is sent to the taker venue only by a pipeline whose maker leg
\* is over: the main task is past the maker leg, the maker order of the pipeline is
\* no longer live, it has traded, and its fill has been reported to the pipeline.
C19_HedgeAfterMakerFill ==
    [][hedges' # hedges =>
          /\ pc \in {"hedge_loop", "s_wait", "s_cancel_wait"}
          /\ engine = "edgex" => pc = "hedge_loop"
          /\ ticket \in 1..Len(orders)
          /\ orders[ticket].st # "live"
          /\ orders[ticket].filled > 0
          /\ ticket \in fill_reported
          /\ hedges' = Append(hedges, hedges'[Len(hedges')])
          /\ hedges'[Len(hedges')].tk = ticket]_vars

\* the hedge of the running pipeline has been sent after its maker order was done
C19_Witness ==
    /\ pc = "monitor"
    /\ ticket \in 1..Len(orders)
    /\ orders[ticket].st # "live" /\ orders[ticket].filled > 0
    /\ \E i \in 1..Len(hedges) : hedges[i].tk = ticket

\* ---- late updates -------------------------------------------------------------------
\* C20: once FILLED is the recorded status of the current maker order of EdgexArb, an
\* update of the same client id with a status that is not final (NEW, OPEN, PENDING,
\* PARTIALLY_FILLED) leaves the recorded status at FILLED.
C20_FilledNotReversed ==
    [][(/\ engine = "edgex"
        /\ mq # <<>> /\ mq' = Tail(mq)
        /\ Head(mq).id = edgex_client_order_id
        /\ edgex_order_status = "FILLED"
        /\ Head(mq).status \in {"NEW", "OPEN", "PENDING", "PARTIALLY_FILLED"})
       => edgex_order_status' = "FILLED"]_vars

\* ---- failures inside a pipeline -----------------------------------------------------
\* C21: a step the main task of EdgexArb takes while it is calling or running a trade
\* pipeline, with no shutdown requested, neither sets stop_flag nor leaves the main
\* loop: a failure of the pipeline ends that trade only.
C21_PipelineFailureLocal ==
    [][(/\ engine = "edgex" /\ pc \in InPipeline \cup {"decide"}
        /\ ~stop_flag /\ UNCHANGED wsv)
       => (~stop_flag' /\ pc' # "exit")]_vars

\* ---- the shutdown sequence ----------------------------------------------------------
\* C22: the steps of a shutdown run in this order: the stop flag is set and the trading
\* loop is left before the cleanup starts; no closing order is sent before the
\* cancelling of the open maker orders has been started; the wait for the positions to
\* be closed follows the reading of the positions; and no websocket connection, client
\* or log file is closed before that wait is over and the cleanup is in its last step.
C22_ShutdownOrder ==
    /\ cleanup_pc # "running" => (stop_flag /\ pc = "exit")
    /\ flatten_orders # <<>> => {"cancel_orders", "close_positions"} \subseteq attempted
    /\ "wait_confirm" \in attempted => "close_positions" \in attempted
    /\ resources_closed # {} => cleanup_pc = "done"

CurrentCancelDelivered ==
    /\ mq # <<>> /\ mq' = Tail(mq)
    /\ pc \in InPipeline
    /\ Head(mq).status = "CANCELED"
    /\ Head(mq).id = ticket
    /\ Head(mq).id = (IF engine = "edgex" THEN edgex_client_order_id ELSE current_order_id)

\* C25: a CANCELED update of the current maker order with a cumulative fill above 0
\* is taken as FILLED: the cached maker position changes by the signed cumulative fill
\* and the hedge is armed with that size on the opposite side; with a cumulative fill
\* of 0 it changes no cached position, arms and sends no hedge and is recorded as
\* CANCELED, on which the maker leg of EdgexArb returns not-filled to a pipeline that
\* ends without a hedge; a pipeline of StandxArb whose maker order was canceled with
\* nothing traded sends no hedge.
C25_CanceledUpdate ==
    [][/\ CurrentCancelDelivered =>
            IF Head(mq).cum > 0
            THEN /\ m_pos' = m_pos + Signed(Head(mq).side, Head(mq).cum)
                 /\ edgex_order_status' = "FILLED"
                 /\ waiting_for_lighter_fill'
                 /\ current_lighter_side' = Opposite(Head(mq).side)
                 /\ current_lighter_quantity' = Head(mq).cum
            ELSE /\ UNCHANGED <<m_pos, t_pos, waiting_for_lighter_fill, current_lighter_side,
                               current_lighter_quantity, hedges>>
                 /\ edgex_order_status' = "CANCELED"
       /\ (engine = "edgex" /\ pc = "leg_wait" /\ edgex_order_status = "CANCELED" /\ pc' # pc)
             => (pc' = "loop" /\ hedges' = hedges)
       /\ (/\ engine = "standx" /\ pc \in InPipeline /\ ticket \in 1..Len(orders)
           /\ orders[ticket].st = "canceled" /\ orders[ticket].filled = 0)
             => hedges' = hedges]_vars

\* the maker order of the running pipeline was canceled after it had traded 0.01: the
\* cached maker position has moved by 0.01 and the hedge is armed with 0.01
C25_Witness ==
    /\ pc \in InPipeline /\ ticket \in 1..Len(orders)
    /\ orders[ticket].st = "canceled" /\ orders[ticket].filled = 1
    /\ edgex_order_status = "FILLED"
    /\ m_pos = m_before + Signed(orders[ticket].side, 1)
    /\ waiting_for_lighter_fill /\ current_lighter_quantity = 1
    /\ current_lighter_side = Opposite(orders[ticket].side)

\* C26: a maker order that is not reported filled has a cancel requested for it by
\* the leg that waits for it, whatever order status the leg has seen, none included
C26_TimeoutCancels ==
    (pc \in {"leg_wait", "s_wait"})
        ~> (ticket \in cancel_sent \/ pc \notin {"leg_wait", "s_wait"})

\* C27: a maker leg that has requested the cancel of its order returns to its pipeline,
\* even when no terminal update of the order ever reaches it
C27_LegTerminates == (pc \in LegWaits /\ ticket \in cancel_sent) ~> (pc \notin LegWaits)

\* a fill of the running pipeline's maker order reaches the handler after the leg has
\* requested the cancel of that order
RacedFillDelivered ==
    /\ mq # <<>> /\ mq' = Tail(mq)
    /\ ticket # 0 /\ Head(mq).id = ticket /\ ticket \in cancel_sent
    /\ seen_status(Head(mq)) = "FILLED" /\ Head(mq).cum > 0

\* C28: a fill of the current maker order that is reported after the leg's cancel
\* request is accepted: the cached maker position moves by the filled size, a hedge of
\* that size and of the opposite side is armed, and the leg is there to submit it
C28_RacedFillAccepted ==
    [][RacedFillDelivered
       => /\ m_pos' = m_pos + Signed(Head(mq).side, Head(mq).cum)
          /\ waiting_for_lighter_fill'
          /\ current_lighter_quantity' = Head(mq).cum
          /\ current_lighter_side' = Opposite(Head(mq).side)
          /\ pc \in LegWaits]_vars

\* C29: once the stop flag is set, a step the main task takes from a suspension point
\* places no maker order and no hedge order, and a pass of the main loop, of the maker
\* leg's wait, of the pipeline's wait for the hedge or of the taker leg's wait leaves
\* that loop
C29_StopHonoured ==
    [][stop_flag
       => /\ pc \notin NoAwait => Len(orders') = Len(orders) /\ Len(hedges') = Len(hedges)
          /\ LoopTop => pc' = "exit"
          /\ SLoop => pc' = "exit"
          /\ LegPoll => pc' # "leg_wait"
          /\ SWait => pc' # "s_wait"
          /\ HedgeLoop => pc' # "hedge_loop"
          /\ MonitorPoll => pc' # "monitor"]_vars

\* ---- a submit that timed out ----------------------------------------------------------
\* C30: after a submit that ended in DEADLINE_EXCEEDED, an order of the current client
\* id that was found among the active orders has had its cancel requested before the
\* pipeline waits for it, whatever open status it was listed with, and the failure is
\* declared at the end of that wait only when the order rests on the venue no more
C30_ReconciledBeforeFailure ==
    /\ pc = "reconcile_wait" => edgex_client_order_id \in cancel_sent
    /\ (pc = "loop" /\ stop_flag /\ checks = ReconcileChecks) => ~recent_order

\* ---- the taker leg's wait -------------------------------------------------------------
\* the wait of the taker leg returns
MonitorReturns == pc = "monitor" /\ pc' # "monitor"

C32_PipelineEndsWithResync ==
    [][(PipelineReturns /\ ticket \in fill_reported /\ pc' \in {"loop", "s_loop"} /\ ~stop_flag')
       => pc = "verify_apply"]_vars

\* ---- the resync ---------------------------------------------------------------------------
\* the comparison of a resync, periodic or after a trade, is made
ResyncApplies == pc \in {"sync_apply", "verify_apply"} /\ pc' # pc

\* the maker query of a resync raises
ResyncQueryFails ==
    \/ pc = "sync_m" /\ pc' \notin {"sync_m", "sync_t"}
    \/ pc = "verify_m" /\ pc' \notin {"verify_m", "verify_t"}

HoldingTimes == {NotOpen} \cup (0..(MaxHours + 1))

\* what _get_time_based_close_thresholds returns for a holding time
selected(h) ==
    <<get_time_based_close_thresholds(h)[1], get_time_based_close_thresholds(h)[2],
      stage_name(h)>>

\* C34: the close-stage selector returns (default multiplier, default min spread,
\* "default") when time-based close is disabled, when the open time is unset, or
\* when the age is below stage1_hours; the stage-1 values with "stage1_relaxed" for
\* an age in [stage1_hours, stage2_hours); the stage-2 values with
\* "stage2_breakeven" for an age in [stage2_hours, stage3_hours); the stage-3
\* values with "stage3_force" for an age of stage3_hours or more.
C34_StageTable ==
    \A h \in HoldingTimes :
        /\ (\/ ~enable_time_based_close \/ h = NotOpen
            \/ h < time_based_close_stage1_hours)
           => selected(h) = <<close_threshold_multiplier, min_close_spread, "default">>
        /\ (/\ enable_time_based_close /\ h # NotOpen
            /\ h >= time_based_close_stage1_hours /\ h < time_based_close_stage2_hours)
           => selected(h) = <<stage1_close_multiplier, stage1_min_spread, "stage1_relaxed">>
        /\ (/\ enable_time_based_close /\ h # NotOpen
            /\ h >= time_based_close_stage2_hours /\ h < time_based_close_stage3_hours)
           => selected(h) = <<stage2_close_multiplier, stage2_min_spread, "stage2_breakeven">>
        /\ (/\ enable_time_based_close /\ h # NotOpen
            /\ h >= time_based_close_stage3_hours)
           => selected(h) = <<stage3_close_multiplier, stage3_min_spread, "stage3_force">>

\* the main loop asks the selector about a position that is exactly stage2_hours old
C34_Witness ==
    /\ engine = "edgex" /\ enable_time_based_close
    /\ pc = "decide" /\ m_pos # 0
    /\ holding_time_hours = time_based_close_stage2_hours
    /\ selected(holding_time_hours)[3] = "stage2_breakeven"


\* a step in which _update_thresholds has run: to its end, or up to the IndexError
\* that add_spread_observation lets through before it stores last_update_time
Recomputed ==
    \/ ~interval_elapsed' /\ updates_since_sample' >= 1
    \/ interval_elapsed /\ interval_elapsed' /\ updates_since_sample' = 0

\* C35: after a recomputation with at least the warm-up number of samples in each
\* deque, each threshold equals clamp(sorted(deque)[floor(n * p)], MIN, MAX) for
\* the percentile p the calculator was constructed with, for every p in [0, 1] and
\* every content of the window.
C35_PercentileOfWindow ==
    [][(Recomputed /\ enough_samples(long_spreads', short_spreads'))
       => /\ ~index_error(long_spreads')
          /\ ~index_error(short_spreads')
          /\ long_threshold' = clamp(percentile_value(long_spreads'))
          /\ short_threshold' = clamp(percentile_value(short_spreads'))]_vars


\* the steps of the finally block of run(), in the order of the code
CleanupOrder == <<"running", "cancel_query", "cancel_orders", "positions", "flatten_m",
                  "flatten_t", "confirm", "final_check", "close_clients", "done">>
cleanup_step(p) == CHOOSE i \in 1..Len(CleanupOrder) : CleanupOrder[i] = p

\* C36: on every way out of run() (a signal, the stop flag set by a pipeline error,
\* an exception or SystemExit out of the trading loop) the cancelling of the open
\* orders and the closing of the positions are run exactly once: a cleanup that is
\* over has started both, no step of it is entered a second time, and a further
\* shutdown() or _async_cleanup() call changes nothing.
C36_CleanupOnce ==
    [][/\ cleanup_step(cleanup_pc') >= cleanup_step(cleanup_pc)
       /\ cleanup_pc' = "done" => {"cancel_orders", "close_positions"} \subseteq attempted'
       /\ stop_flag => (stop_flag' /\ UNCHANGED wsv)
       /\ (stop_flag /\ cleanup_pc # "close_clients") => UNCHANGED resources_closed
       /\ cleanup_pc # "done"]_vars

\* run() is over after a pipeline error had set the stop flag: shutdown() returned at
\* once in the finally block, an order was cancelled and a closing order was sent
C36_Witness ==
    /\ pc = "exit" /\ cleanup_pc = "done" /\ stop_flag
    /\ "ws_manager" \notin resources_closed
    /\ cancel_sent # {}
    /\ Len(flatten_orders) = 1


\* the handler has just added the fill of maker order i to the cached position
FillApplied(i) == applied'[i] # applied[i]

\* C37: for each maker order the cached maker position changes by the order's final
\* cumulative filled size exactly once, however many updates (PartiallyFilled, Filled,
\* Canceled with a fill, repeated deliveries) the venue sends for it: the handler adds
\* the signed final size of a finished order, and never a second time.
C37_FillAppliedOnce ==
    [][\A i \in 1..Len(orders) :
          FillApplied(i) =>
              /\ orders[i].st # "live"
              /\ m_pos' = m_pos + Signed(orders[i].side, orders[i].filled)
              /\ applied[i] = 0]_vars


\* C38: a fill the order-update callback has added to the cached position while a
\* resync (the periodic one or the verification after a trade) was suspended on its
\* venue queries is not lost: the resync does not overwrite the cache with a venue
\* snapshot taken before that fill, so a cached position that holds every fill of its
\* venue when the resync compares still holds them afterwards.
C38_FillSurvivesResync ==
    [][(ResyncApplies /\ fill_in_resync)
       => /\ actual_m = vm_pos /\ actual_t = vt_pos
          /\ m_pos = vm_pos => m_pos' = vm_pos
          /\ t_pos = vt_pos => t_pos' = vt_pos]_vars

\* the verification after a trade is about to compare: the fill of the hedge was added
\* to the cache by the callback while the verification waited, and the cache holds it
C38_Witness ==
    /\ pc = "verify_apply" /\ fill_in_resync
    /\ hedges # <<>> /\ hedges[Len(hedges)].fill > 0
    /\ tq = <<>> /\ t_pos = vt_pos /\ t_pos # t_before


\* C39: in EdgexArb, with the maker position flat or one order_quantity long or short
\* at the start and no maker fill above order_quantity, the cached maker position stays
\* within [-order_quantity, +order_quantity], because a buy is dispatched only when the
\* cached maker position is at most 0 and a sell only when it is at least 0.
C39_MakerPositionBounded ==
    [][engine = "edgex"
       => /\ Abs(m_pos) <= OrderQty
          /\ Abs(m_pos') <= OrderQty
          /\ (EdgexDecides /\ signal' = "long") => m_pos <= 0
          /\ (EdgexDecides /\ signal' = "short") => m_pos >= 0]_vars

\* EdgexArb has sold into a long position left by a partial fill, and the cached maker
\* position has gone from long to short inside the band
C39_Witness ==
    /\ engine = "edgex" /\ signal = "short"
    /\ m_before > 0 /\ m_before < OrderQty
    /\ m_pos < 0
    /\ ticket # 0 /\ applied[ticket] = 1


\* C40: when EdgexArb decides with a short cached maker position, the buy that closes
\* it is dispatched only when long_spread is above the open-long threshold itself: the
\* close thresholds of the holding-time stages do not lower what the closing of a
\* short position needs, as they do for the closing of a long position, so a
\* long_spread at or below the open-long threshold dispatches nothing at any stage.
C40_ShortClosedAtOpenThreshold ==
    [][(EdgexDecides /\ ~stop_flag /\ m_pos < 0)
       => /\ signal' = "long" => long_spread(bbo) > long_ex_threshold
          /\ long_spread(bbo) <= long_ex_threshold => signal' \notin {"long", "short"}]_vars

\* a short held into a relaxed stage is being closed by the long pipeline
C40_Witness ==
    /\ engine = "edgex" /\ enable_time_based_close
    /\ signal = "long" /\ pc \in {"leg_wait", "leg_bbo"}
    /\ m_before < 0 /\ m_pos = m_before
    /\ holding_time_hours # NotOpen
    /\ holding_time_hours >= time_based_close_stage1_hours

====
